---- MODULE Spec2Model ----
\* Yuzu: a server-held JSON state tree, observed through proxies, whose writes
\* are turned into path-addressed patches and mirrored on clients.
\*
\* Values are JSON trees without sharing: every value assigned through
\* server.state is a fresh tree, and the only references that outlive an
\* assignment are the ones the library itself keeps (the patch buffer).
EXTENDS Integers, Sequences, FiniteSets, TLC

\* ------------------------------------------------------------------ bounds
MaxWrites == 2
MaxSyncWrites == 3
MaxReads == 2
MaxRequests == 1
MaxListeners == 2
MaxBatchLen == 2
MaxSockets == 3
MaxUserCalls == 2
MaxTeardowns == 3
MaxUnsubCalls == 3
MaxDepth == 4
MaxInbound == 1
MaxBatchWrites == 4

\* YUZU_SETTINGS.CLIENT_DEFAULT_RECONNECT_TIMEOUT
ReconnectTimeout == 3000

\* ------------------------------------------------------------- JS values
\* One record shape for every value: tag t, number n, own properties f.
NoProps == [k \in {} |-> 0]
Num(i) == [t |-> "num", n |-> i, f |-> NoProps]
Null == [t |-> "null", n |-> 0, f |-> NoProps]
Undef == [t |-> "undef", n |-> 0, f |-> NoProps]
Obj(props) == [t |-> "obj", n |-> 0, f |-> props]
IsObject(v) == v.t = "obj"

Props1(k, v) == [x \in {k} |-> v]
Props2(k1, v1, k2, v2) == [x \in {k1, k2} |-> IF x = k1 THEN v1 ELSE v2]

\* target[prop] = value on an ordinary object
SetProp(o, k, v) ==
  Obj([x \in (DOMAIN o.f) \cup {k} |-> IF x = k THEN v ELSE o.f[x]])

\* obj[prop]: undefined when the property is missing
GetProp(o, k) == IF IsObject(o) /\ k \in DOMAIN o.f THEN o.f[k] ELSE Undef

IsPrefix(p, q) ==
  /\ Len(p) <= Len(q)
  /\ \A i \in 1..Len(p) : p[i] = q[i]

Drop(p, n) == SubSeq(p, n + 1, Len(p))
Front(p) == SubSeq(p, 1, Len(p) - 1)
Last(p) == p[Len(p)]

\* Descend along path with plain property reads.
RECURSIVE GetAt(_, _)
GetAt(v, path) ==
  IF path = <<>> THEN v
  ELSE GetAt(GetProp(v, Head(path)), Tail(path))

\* The tree after container[path[n-1]] = val, where the container is the
\* object reached along path[0..n-2].  Only used where that object exists.
RECURSIVE SetAt(_, _, _)
SetAt(v, path, val) ==
  IF Len(path) = 1 THEN SetProp(v, path[1], val)
  ELSE SetProp(v, Head(path), SetAt(v.f[Head(path)], Tail(path), val))

\* the tree after a sequence of assignments [path, value]
RECURSIVE Replay(_, _)
Replay(st, ws) ==
  IF ws = <<>> THEN st
  ELSE Replay(SetAt(st, Head(ws).path, Head(ws).value), Tail(ws))

\* JSON.parse(JSON.stringify(v)) for a value nested in an object: properties
\* holding undefined are left out.
RECURSIVE JsonNested(_)
JsonNested(v) ==
  IF IsObject(v)
  THEN Obj([k \in {x \in DOMAIN v.f : v.f[x].t # "undef"} |-> JsonNested(v.f[k])])
  ELSE v

\* JSON round trip of a message field: an undefined field disappears from the
\* text and reads back as undefined.
JsonRoundTrip(v) == JsonNested(v)

\* --------------------------------------------------------------- universe
Clients == {"c1", "c2"}
Me == "c1"
Broadcast == "*"
Keys == {"a", "b"}
InitialState == Obj(Props2("a", Obj(Props1("a", Num(0))), "b", Num(0)))
WriteValues == {Num(0), Undef, Obj(Props1("a", Num(0)))}
ParentPaths == {<<>>, <<"a">>}
\* batchDelay as given in the config: absent, negative, zero, positive
NotConfigured == [given |-> FALSE, ms |-> 0]
Configured(ms) == [given |-> TRUE, ms |-> ms]
ConfigDelays == {NotConfigured, Configured(-1), Configured(0), Configured(10)}

VARIABLES
  config,             \* server: config.batchDelay as passed to the constructor
  externalTransport,  \* server: config.externalTransport || false
  batchDelay,         \* server: this.batchDelay
  serverState,        \* server: the object behind this._state
  patchBatch,         \* server: this.patchBatch, entries hold references
  batchTimeout,       \* server: this.batchTimeout !== undefined
  timers,             \* server: the pending setTimeout(sendBatch) timers, each named
                      \*         by the number of the write that scheduled it
  closed,             \* server: close() has been called
  frozen,             \* server: the paths of the state's objects that are frozen
  serverThrew,        \* the handling of the last inbound message threw out of its handler
  readyState,         \* per endpoint: NONE, OPEN or CLOSED
  wire,               \* per endpoint: messages handed to it, in order
  inbox,              \* per endpoint: client messages on their way to the server
  writes,             \* history: the assignments made through server.state
  reads,              \* history: number of reads made through server.state
  handed,             \* history: every hand-over to the transport
  closedAt,           \* history: what close() met
  clientState,        \* client: this._state
  listeners,          \* client: this.listeners
  pos,                \* client: how many messages of wire[Me] it has processed
  handled,            \* client: the last message given to handleMessage, and the state it met
  calls,              \* client: listener invocations of the last message
  threw,              \* client: the last message handler ended by an exception
  registered,         \* history: the last onChangeExisting / onChangeOptional call and how it ended
  useToken,           \* client: wsConfig.getToken is given
  ws,                 \* client: this.ws, the number of a socket, 0 for undefined
  sock,               \* client: every WebSocket it has created, in order of creation
  awaiting,           \* client: connect() calls suspended at await getToken()
  tokenCalls,         \* history: number of calls of wsConfig.getToken; call k returns token k
  reconnectTimeoutId, \* client: this.reconnectTimeoutId, 0 for undefined
  reconnectTimers,    \* client: the pending setTimeout(connect) timers
  isManualReconnect,  \* client: this.isManualReconnect
  connected,          \* client: this._connected.value
  stopped,            \* history: disconnect() was the last of disconnect()/reconnect()
  userCalls,          \* history: number of reconnect() and disconnect() calls
  unsubFunctions,     \* subscription: this._unsubFunctions
  subClosed,          \* subscription: this.closed
  ran,                \* history: how often each teardown of _unsubFunctions has run
  unsubCalls,         \* history: number of unsubscribe() calls
  lateRun,            \* history: a teardown ran in a call after the first
  lateThrow,          \* history: a call after the first threw
  bFunctions,         \* second subscription B: its _unsubFunctions
  bClosed,            \* second subscription B: its closed
  bRan,               \* history: how often each teardown of B has run
  bCalls,             \* history: number of direct B.unsubscribe() calls
  attachedOpen,       \* history: add(B) was called on the first handle while it was not closed
  stack,              \* the unsubscribe() calls in progress: handle and loop position of each
  overflow            \* history: the call stack was exhausted (RangeError)

serverVars == <<config, externalTransport, batchDelay, serverState, patchBatch, batchTimeout,
                timers, closed, serverThrew, frozen>>
netVars == <<readyState, wire, inbox>>
histVars == <<writes, reads, handed, closedAt>>
connVars == <<useToken, ws, sock, awaiting, tokenCalls, reconnectTimeoutId, reconnectTimers,
              isManualReconnect, connected, stopped, userCalls>>
subVars == <<unsubFunctions, subClosed, ran, unsubCalls, lateRun, lateThrow,
             bFunctions, bClosed, bRan, bCalls, attachedOpen, stack, overflow>>
clientVars == <<clientState, listeners, pos, handled, calls, threw, registered, connVars, subVars>>
vars == <<serverVars, netVars, histVars, clientVars>>

\* ------------------------------------------------------------ wire schema
CompleteMsg(st) == [type |-> "complete", state |-> st, patches |-> <<>>]
PatchMsg(path, value) ==
  [type |-> "patch", state |-> Undef, patches |-> <<[path |-> path, value |-> value]>>]
PatchBatchMsg(ps) == [type |-> "patch-batch", state |-> Undef, patches |-> ps]

\* what a peer can send besides: text that is not JSON, the JSON text null,
\* a patch message without its patch field, a message of an unknown type
NotJson == [type |-> "not-json", state |-> Undef, patches |-> <<>>]
JsonNull == [type |-> "json-null", state |-> Undef, patches |-> <<>>]
PatchWithoutPatch == [type |-> "patch", state |-> Undef, patches |-> <<>>]
UnknownType == [type |-> "ping", state |-> Undef, patches |-> <<>>]

\* JSON.stringify of a message followed by JSON.parse at the receiver
Stringify(msg) ==
  [type |-> msg.type,
   state |-> JsonRoundTrip(msg.state),
   patches |-> [i \in 1..Len(msg.patches) |->
                  [path |-> msg.patches[i].path,
                   value |-> JsonRoundTrip(msg.patches[i].value)]]]

\* ----------------------------------------------------------------- server
\* constructor: if (config.batchDelay && config.batchDelay > 0) this.batchDelay = ...
ConfiguredDelay(cfg) == IF cfg.given /\ cfg.ms > 0 THEN cfg.ms ELSE 0

\* the patch path without the path of the enclosing proxy
TrapPathPropOnly(path, prop) == <<prop>>

\* [...path, prop.toString()]
TrapPath(path, prop) == Append(path, prop)

\* only one of the open endpoints is served
BroadcastToOneOnly ==
  LET open == {c \in Clients : readyState[c] = "OPEN"}
  IN IF open = {} THEN {} ELSE {CHOOSE c \in open : TRUE}

\* wss.clients.forEach(client => client.readyState === OPEN && client.send(..));
\* in external mode the host's broadcast reaches the endpoints it has attached
BroadcastTargets == {c \in Clients : readyState[c] = "OPEN"}

\* the reply goes out like a broadcast
ReplyToAllOpen(c) == {c} \cup {d \in Clients : readyState[d] = "OPEN"}

\* ws.send(completeMessage) on the requesting socket; in external mode
\* onMessage(completeMessage, clientId), which the host routes to that client
ReplyTargets(c) == {c}

HandOver(message, clientId, targets) ==
  /\ wire' = [c \in Clients |->
                IF c \in targets THEN Append(wire[c], message) ELSE wire[c]]
  /\ handed' = Append(handed, [msg |-> message, clientId |-> clientId, to |-> targets,
                               open |-> IF clientId = Broadcast
                                        THEN {c \in Clients : readyState[c] = "OPEN"}
                                        ELSE targets,
                               nw |-> Len(writes'), st |-> serverState'])

\* send(message): broadcast
send(message) == HandOver(message, Broadcast, BroadcastTargets)

\* a delay of zero is taken to ask for batching
ImmediateOnlyIfNegative == batchDelay < 0

\* sendPatch takes the immediate branch
Immediate == batchDelay <= 0

\* The buffered patches after Reflect.set(target, prop, value): a buffered
\* value is the very object that was assigned, so a later write below its
\* path changes it too, until a write at or above its path detaches it.
AliasedAfterSet(batch, path, value) ==
  [i \in 1..Len(batch) |->
     IF ~batch[i].live THEN batch[i]
     ELSE IF IsPrefix(path, batch[i].path)
       THEN [batch[i] EXCEPT !.live = FALSE]
     ELSE IF IsPrefix(batch[i].path, path)
       THEN [batch[i] EXCEPT !.value = SetAt(@, Drop(path, Len(batch[i].path)), value)]
     ELSE batch[i]]

\* every buffered patch sets a timer
ScheduleAlways == TRUE

\* if (this.batchTimeout === undefined)
MustSchedule == ~batchTimeout

sendPatch(path, value) ==
  IF Immediate
  THEN /\ send(Stringify(PatchMsg(path, value)))
       /\ UNCHANGED <<patchBatch, batchTimeout, timers>>
  ELSE /\ patchBatch' = Append(AliasedAfterSet(patchBatch, path, value),
                               [path |-> path, value |-> value, live |-> IsObject(value)])
       /\ batchTimeout' = TRUE
       /\ timers' = IF MustSchedule THEN timers \cup {Len(writes')} ELSE timers
       /\ UNCHANGED <<wire, handed>>

\* proxyHandler.set reached through server.state.<path>.<prop> = value:
\* Reflect.set returns false and changes nothing on a frozen target; the
\* patch is sent in both cases.  An object that is replaced takes the frozen
\* objects below it out of the state.
Write(path, prop, value) ==
  /\ IsObject(GetAt(serverState, path))
  /\ IF path \in frozen
     THEN UNCHANGED <<serverState, writes, frozen>>
     ELSE /\ serverState' = SetAt(serverState, Append(path, prop), value)
          /\ writes' = Append(writes, [path |-> Append(path, prop), value |-> value])
          /\ frozen' = {p \in frozen : ~IsPrefix(Append(path, prop), p)}
  /\ sendPatch(TrapPath(path, prop), value)
  /\ UNCHANGED <<config, serverThrew, externalTransport, batchDelay, closed, readyState, inbox, reads,
                 closedAt, clientVars>>

\* Object.freeze(server.state.<path>) by the host: no trap of the proxy is
\* passed, the underlying object is frozen
Freeze(path) ==
  /\ IsObject(GetAt(serverState, path))
  /\ path \notin frozen
  /\ frozen' = frozen \cup {path}
  /\ UNCHANGED <<config, serverThrew, externalTransport, batchDelay, serverState, patchBatch,
                 batchTimeout, timers, closed, netVars, histVars, clientVars>>

\* proxyHandler.get reached through server.state.<path>.<prop>
Read(path, prop) ==
  /\ IsObject(GetAt(serverState, path))
  /\ reads' = reads + 1
  /\ UNCHANGED <<serverVars, netVars, writes, handed, closedAt, clientVars>>

\* variant: the flush leaves the buffer as it is
BatchKept == patchBatch

\* this.patchBatch = [] in sendBatch
ClearedBatch == <<>>

\* a batch timer fires: sendBatch()
sendBatch ==
  /\ timers # {}
  /\ \E t \in timers : timers' = timers \ {t}
  /\ UNCHANGED <<config, serverThrew, frozen, externalTransport, batchDelay, serverState, closed, readyState, inbox,
                 writes, reads, closedAt, clientVars>>
  /\ IF Len(patchBatch) < 1
     THEN UNCHANGED <<patchBatch, batchTimeout, wire, handed>>
     ELSE /\ patchBatch' = ClearedBatch
          /\ batchTimeout' = FALSE
          /\ send(Stringify(PatchBatchMsg(
               [i \in 1..Len(patchBatch) |->
                  [path |-> patchBatch[i].path, value |-> patchBatch[i].value]])))

\* close(): if (this.batchTimeout) { clearTimeout(..); this.batchTimeout = undefined };
\* the buffer is left as it is.  Closing the socket server does not end the
\* connections it has; in external mode there is nothing else to close.
close ==
  /\ timers' = IF batchTimeout THEN {} ELSE timers
  /\ batchTimeout' = FALSE
  /\ closed' = TRUE
  /\ closedAt' = [handed |-> Len(handed), writes |-> Len(writes), buffered |-> Len(patchBatch)]
  /\ UNCHANGED <<config, serverThrew, frozen, externalTransport, batchDelay, serverState, patchBatch, netVars,
                 writes, reads, handed, clientVars>>

\* the reply carries the state as of the last flush
SnapshotAtLastFlush ==
  Replay(InitialState, SubSeq(writes, 1, Len(writes) - Len(patchBatch)))

\* state: this._state in the complete reply
SnapshotState == serverState

\* what an endpoint can send: a request for the complete state, a text that
\* is not JSON, the JSON text "null", a message of a type the server does
\* not know
InboundTypes == {"complete", "not-json", "json-null", "ping"}

\* variant: every message but a request for the complete state throws
ThrowsUnlessComplete(type) == type # "complete"

\* JSON.parse(message) throws, or msg.type is read from null
ThrowsInHandler(type) == type \in {"not-json", "json-null"}

\* a message of endpoint c reaches handleMessage: the ws "message" event
\* (JSON.parse and handleMessage, nothing caught), or the host calling
\* handleClientMessage(message, c) (both inside try/catch)
ServerHandleMessage(c) ==
  /\ inbox[c] # <<>>
  /\ inbox' = [inbox EXCEPT ![c] = Tail(@)]
  /\ serverThrew' = (ThrowsInHandler(Head(inbox[c])) /\ ~externalTransport)
  /\ UNCHANGED <<config, externalTransport, batchDelay, serverState, patchBatch, batchTimeout,
                 timers, closed, frozen, readyState, writes, reads, closedAt, clientVars>>
  /\ IF Head(inbox[c]) = "complete" /\ (externalTransport \/ readyState[c] = "OPEN")
     THEN HandOver(Stringify(CompleteMsg(SnapshotState)), c, ReplyTargets(c))
     ELSE UNCHANGED <<wire, handed>>

\* -------------------------------------------------------------- endpoints
\* wss "connection" event / the host attaches a client
SocketOpen(c) ==
  /\ readyState[c] = "NONE"
  /\ readyState' = [readyState EXCEPT ![c] = "OPEN"]
  /\ UNCHANGED <<serverVars, wire, inbox, histVars, clientVars>>

\* the endpoint closes, after everything it sent has been received
SocketClose(c) ==
  /\ readyState[c] = "OPEN"
  /\ inbox[c] = <<>>
  /\ readyState' = [readyState EXCEPT ![c] = "CLOSED"]
  /\ UNCHANGED <<serverVars, wire, inbox, histVars, clientVars>>

\* the peer sends a message; for type complete this is reload()
ClientSend(c, type) ==
  /\ readyState[c] = "OPEN"
  /\ inbox' = [inbox EXCEPT ![c] = Append(@, type)]
  /\ UNCHANGED <<serverVars, readyState, wire, histVars, clientVars>>

\* ----------------------------------------------------------------- client
Fns == {"f", "g"}
\* listener functions that throw when called
ThrowingFns == {"g"}

\* readPathExisting(path): ok is FALSE where the code throws
RECURSIVE readPathExisting(_, _)
readPathExisting(curr, path) ==
  IF path = <<>> THEN [ok |-> TRUE, value |-> curr]
  ELSE IF IsObject(curr) /\ Head(path) \in DOMAIN curr.f
    THEN readPathExisting(curr.f[Head(path)], Tail(path))
    ELSE [ok |-> FALSE, value |-> Undef]

\* variant: the value is assigned to the last segment's property of the root
patchStateAtRoot(st, path, value) == [ok |-> TRUE, state |-> SetProp(st, Last(path), value)]

\* patchState(path, value): ok is FALSE where the walk or the assignment
\* throws.  An empty path assigns the property named by path[-1].
patchState(st, path, value) ==
  IF ~IsObject(GetAt(st, Front(path))) THEN [ok |-> FALSE, state |-> st]
  ELSE IF path = <<>> THEN [ok |-> TRUE, state |-> SetProp(st, "undefined", value)]
  ELSE [ok |-> TRUE, state |-> SetAt(st, path, value)]

\* for (const patch of msg.patches) this.patchState(patch.path, patch.value)
RECURSIVE ApplyPatches(_, _)
ApplyPatches(st, patches) ==
  IF patches = <<>> THEN [ok |-> TRUE, state |-> st]
  ELSE LET r == patchState(st, Head(patches).path, Head(patches).value)
       IN IF r.ok THEN ApplyPatches(r.state, Tail(patches)) ELSE r

\* for (i < listener.path.length) if (path[i] !== listener.path[i]) return
PathMet(listenerPath, path) ==
  \A i \in 1..Len(listenerPath) : i <= Len(path) /\ path[i] = listenerPath[i]

\* variant: every invocation reports the empty path
InvocationAtRoot(i, fn, value, path) == [l |-> i, fn |-> fn, value |-> value, path |-> <<>>]

\* listenerFn(value, path) of listener i
Invocation(i, fn, value, path) == [l |-> i, fn |-> fn, value |-> value, path |-> path]

\* notifyListeners(path), from listener i on: no try/catch, so the first
\* exception ends the round
RECURSIVE NotifyFrom(_, _, _, _)
NotifyFrom(st, ls, path, i) ==
  IF i > Len(ls) THEN [calls |-> <<>>, threw |-> FALSE]
  ELSE IF ~PathMet(ls[i].path, path) THEN NotifyFrom(st, ls, path, i + 1)
  ELSE LET r == readPathExisting(st, ls[i].path)
           call == Invocation(i, ls[i].fn, r.value, path)
       IN IF ~r.ok THEN [calls |-> <<>>, threw |-> TRUE]
          ELSE IF ls[i].fn \in ThrowingFns THEN [calls |-> <<call>>, threw |-> TRUE]
          ELSE LET rest == NotifyFrom(st, ls, path, i + 1)
               IN [calls |-> <<call>> \o rest.calls, threw |-> rest.threw]

notifyListeners(st, ls, path) == NotifyFrom(st, ls, path, 1)

\* each listener of the list in try { fn(readPathExisting(path), trig) } catch {}
RECURSIVE NotifyEachFrom(_, _, _, _, _)
NotifyEachFrom(st, ls, chosen, own, i) ==
  IF i > Len(ls) THEN <<>>
  ELSE LET r == readPathExisting(st, ls[i].path)
           rest == NotifyEachFrom(st, ls, chosen, own, i + 1)
       IN IF i \in chosen /\ r.ok
          THEN <<Invocation(i, ls[i].fn, r.value, IF own THEN ls[i].path ELSE <<>>)>> \o rest
          ELSE rest

\* the listeners a batch triggers
Triggered(ls, paths) ==
  {i \in 1..Len(ls) : \E k \in 1..Len(paths) : PathMet(ls[i].path, paths[k])}

\* one notification round per patch of the batch, without deduplication
RECURSIVE NotifyPerPatch(_, _, _)
NotifyPerPatch(st, ls, paths) ==
  IF paths = <<>> THEN [calls |-> <<>>, threw |-> FALSE]
  ELSE [calls |-> NotifyEachFrom(st, ls, Triggered(ls, <<Head(paths)>>), TRUE, 1)
                    \o NotifyPerPatch(st, ls, Tail(paths)).calls,
        threw |-> FALSE]

\* notifyListenersOnce(paths)
notifyListenersOnce(st, ls, paths) ==
  [calls |-> NotifyEachFrom(st, ls, Triggered(ls, paths), TRUE, 1), threw |-> FALSE]

\* every listener is told its own path as the triggering path
NotifyAllWithOwnPath(st, ls) ==
  [calls |-> NotifyEachFrom(st, ls, 1..Len(ls), TRUE, 1), threw |-> FALSE]

\* notifyAllListeners()
notifyAllListeners(st, ls) ==
  [calls |-> NotifyEachFrom(st, ls, 1..Len(ls), FALSE, 1), threw |-> FALSE]

\* handleMessage(msg) of the client: the state, the listener invocations and
\* whether an exception left the handler
ClientHandleMessage(st, ls, msg) ==
  IF msg.type \in {NotJson.type, JsonNull.type}
  THEN [state |-> st, calls |-> <<>>, threw |-> TRUE]
  ELSE IF msg.type = "patch" /\ msg.patches = <<>>
  THEN [state |-> st, calls |-> <<>>, threw |-> TRUE]
  ELSE IF msg.type = "complete"
  THEN IF IsObject(msg.state)
       THEN LET n == notifyAllListeners(msg.state, ls)
            IN [state |-> msg.state, calls |-> n.calls, threw |-> n.threw]
       ELSE [state |-> msg.state, calls |-> <<>>, threw |-> TRUE]
  ELSE IF msg.type = "patch"
  THEN LET r == patchState(st, msg.patches[1].path, msg.patches[1].value)
           n == notifyListeners(r.state, ls, msg.patches[1].path)
       IN IF r.ok THEN [state |-> r.state, calls |-> n.calls, threw |-> n.threw]
          ELSE [state |-> r.state, calls |-> <<>>, threw |-> TRUE]
  ELSE IF msg.type = "patch-batch"
  THEN LET r == ApplyPatches(st, msg.patches)
           n == notifyListenersOnce(r.state, ls,
                  [k \in 1..Len(msg.patches) |-> msg.patches[k].path])
       IN IF r.ok THEN [state |-> r.state, calls |-> n.calls, threw |-> n.threw]
          ELSE [state |-> r.state, calls |-> <<>>, threw |-> TRUE]
  ELSE [state |-> st, calls |-> <<>>, threw |-> FALSE]

\* listener functions that call unsubscribe() on the handle of Victim's
\* subscription
UnsubscribingFns == {"u"}
Victim == "f"

\* removeListener(listener): this.listeners = this.listeners.filter(..)
removeListener(ls, fn) == SelectSeq(ls, LAMBDA l : l.fn # fn)

\* variant: processing a message empties the registry
ListenersCleared(ls, invoked) == <<>>

\* this.listeners after a round: the rounds iterate over the array they
\* started with, removeListener puts a filtered copy in its place
ListenersAfter(ls, invoked) ==
  IF \E k \in 1..Len(invoked) : invoked[k].fn \in UnsubscribingFns
  THEN removeListener(ls, Victim)
  ELSE ls

\* the message reaches the client through an entry point that does or does
\* not catch what the handling throws
Handle(msg, caught) ==
  LET r == ClientHandleMessage(clientState, listeners, msg)
  IN /\ clientState' = r.state
     /\ listeners' = ListenersAfter(listeners, r.calls)
     /\ calls' = r.calls
     /\ threw' = (r.threw /\ ~caught)
     /\ UNCHANGED registered
     /\ handled' = <<[msg |-> msg, before |-> clientState]>>

\* the next message of the client's connection arrives: ws "message" event
ClientReceive ==
  /\ pos < Len(wire[Me])
  /\ pos' = pos + 1
  /\ Handle(wire[Me][pos + 1], FALSE)
  /\ UNCHANGED <<serverVars, netVars, histVars, subVars, connVars>>

\* the message received last is handled once more
ReceiveAgain ==
  /\ pos > 0
  /\ Handle(wire[Me][pos], FALSE)
  /\ UNCHANGED <<serverVars, netVars, histVars, subVars, connVars, pos>>

\* subscribe(listenerFn, path)
subscribe(fn, path) ==
  /\ listeners' = Append(listeners, [path |-> path, fn |-> fn])
  /\ UNCHANGED <<serverVars, netVars, histVars, subVars, clientState, pos, handled, calls, threw, registered, connVars>>

\* onChangeExisting(path, listener): this.readPathExisting(path) throws for a
\* path that is not in the state, otherwise this.subscribe(listener, path)
onChangeExisting(fn, path) ==
  LET r == readPathExisting(clientState, path)
  IN /\ listeners' = IF r.ok THEN Append(listeners, [path |-> path, fn |-> fn]) ELSE listeners
     /\ registered' = <<[kind |-> "existing", path |-> path, fn |-> fn, threw |-> ~r.ok]>>
     /\ UNCHANGED <<serverVars, netVars, histVars, subVars, clientState, pos, handled, calls,
                    threw, connVars>>

\* onChangeOptional(path, listener): this.subscribe(listener, path)
onChangeOptional(fn, path) ==
  /\ listeners' = Append(listeners, [path |-> path, fn |-> fn])
  /\ registered' = <<[kind |-> "optional", path |-> path, fn |-> fn, threw |-> FALSE]>>
  /\ UNCHANGED <<serverVars, netVars, histVars, subVars, clientState, pos, handled, calls,
                 threw, connVars>>

\* state$.<path> carries subscribe: the get trap of the proxy above defines
\* it on an object value it returns; the root proxy itself is returned by
\* the getter without passing a get trap
CarriesSubscribe(st, path) == path # <<>> /\ IsObject(GetAt(st, path))

\* state$.<path>.subscribe(listener): this.subscribe(listener, [...path, prop])
\* where subscribe is there, a TypeError where it is undefined
subscribeThrough(fn, path) ==
  LET has == CarriesSubscribe(clientState, path)
  IN /\ listeners' = IF has THEN Append(listeners, [path |-> path, fn |-> fn]) ELSE listeners
     /\ registered' = <<[kind |-> "state$", path |-> path, fn |-> fn, threw |-> ~has]>>
     /\ UNCHANGED <<serverVars, netVars, histVars, subVars, clientState, pos, handled, calls,
                    threw, connVars>>

\* unsubscribe() of the handle subscribe(fn, ..) returned: removeListener(fn)
unsubscribeListener(fn) ==
  /\ \E i \in 1..Len(listeners) : listeners[i].fn = fn
  /\ listeners' = removeListener(listeners, fn)
  /\ UNCHANGED <<serverVars, netVars, histVars, subVars, clientState, pos, handled, calls, threw, registered,
                 connVars>>

\* unsubscribe() of the handle that the subscribe call of record i returned:
\* this.removeListener(listenerFn) with the function of that call
unsubscribeHandle(i) ==
  /\ i \in 1..Len(listeners)
  /\ listeners' = removeListener(listeners, listeners[i].fn)
  /\ UNCHANGED <<serverVars, netVars, histVars, subVars, clientState, pos, handled, calls,
                 threw, registered, connVars>>

\* handleServerMessage(message) called by the host with any message:
\* if (!this.externalTransport) return; try { JSON.parse; handleMessage } catch {}
handleServerMessage(msg) ==
  /\ IF externalTransport
     THEN Handle(msg, TRUE)
     ELSE UNCHANGED <<clientState, listeners, handled, calls, threw, registered>>
  /\ UNCHANGED <<serverVars, netVars, histVars, subVars, pos, connVars>>

\* the "message" event of socket i: JSON.parse(ev.data), this.handleMessage(msg)
onMessage(i, msg) ==
  /\ i \in 1..Len(sock)
  /\ sock[i].state = "OPEN"
  /\ Handle(msg, FALSE)
  /\ UNCHANGED <<serverVars, netVars, histVars, subVars, pos, connVars>>

\* ------------------------------------------------------- client transport
\* new WebSocket(connectionUrl): connecting, not closed by anyone, nothing sent
NewSocket == [state |-> "CONNECTING", by |-> "nobody", requests |-> 0, token |-> 0]

Live(s) == {i \in 1..Len(s) : s[i].state \in {"CONNECTING", "OPEN"}}

\* socket.close(): a connecting or open socket starts closing and will fire
\* its close event; a closing or closed one is left alone
CloseSocket(s, i, by) ==
  IF i \in Live(s) THEN [s EXCEPT ![i].state = "CLOSING", ![i].by = by] ELSE s

\* variant: connect() that does not look at externalTransport
connectInAnyMode(w, s, a, n) ==
  IF useToken THEN [ws |-> w, sock |-> s, awaiting |-> a + 1, tokenCalls |-> n + 1]
  ELSE [ws |-> Len(s) + 1, sock |-> Append(s, NewSocket), awaiting |-> a, tokenCalls |-> n]

\* connect() up to its first suspension, from the given ws, sockets,
\* suspended calls and calls of getToken: if (this.externalTransport) return;
\* [token = await getToken();] this.ws = new WebSocket(..)
connect(w, s, a, n) ==
  IF externalTransport THEN [ws |-> w, sock |-> s, awaiting |-> a, tokenCalls |-> n]
  ELSE IF useToken THEN [ws |-> w, sock |-> s, awaiting |-> a + 1, tokenCalls |-> n + 1]
  ELSE [ws |-> Len(s) + 1, sock |-> Append(s, NewSocket), awaiting |-> a, tokenCalls |-> n]

\* variant: a resumed connect() uses any token fetched so far
AnyIssued == 1..tokenCalls

\* the tokens of the connect() calls still suspended at await getToken():
\* those returned and not yet used for a transport
Pending == (1..tokenCalls) \ {sock[i].token : i \in 1..Len(sock)}

\* connect() after await this.wsConfig.getToken(): this.ws = new
\* WebSocket(url with the token of this call)
connectResumes ==
  /\ awaiting > 0
  /\ awaiting' = awaiting - 1
  /\ \E t \in Pending : sock' = Append(sock, [NewSocket EXCEPT !.token = t])
  /\ ws' = Len(sock) + 1
  /\ UNCHANGED <<serverVars, netVars, histVars, subVars, clientState, listeners, pos, handled, calls,
                 threw, registered, useToken, tokenCalls, reconnectTimeoutId, reconnectTimers,
                 isManualReconnect, connected, stopped, userCalls>>

\* reload() in WebSocket mode: this.ws?.send(msgString).  send() throws on a
\* connecting socket and discards the data on a closing or closed one.
reload(w, s) ==
  IF w = 0 THEN [ok |-> TRUE, sock |-> s]
  ELSE IF s[w].state = "CONNECTING" THEN [ok |-> FALSE, sock |-> s]
  ELSE IF s[w].state = "OPEN" THEN [ok |-> TRUE, sock |-> [s EXCEPT ![w].requests = @ + 1]]
  ELSE [ok |-> TRUE, sock |-> s]

\* the "open" event of socket i: this.reload(); this._connected.next(true)
onOpen(i) ==
  /\ i \in 1..Len(sock)
  /\ sock[i].state = "CONNECTING"
  /\ LET r == reload(ws, [sock EXCEPT ![i].state = "OPEN"])
     IN /\ sock' = r.sock
        /\ connected' = IF r.ok THEN TRUE ELSE connected
  /\ UNCHANGED <<serverVars, netVars, histVars, subVars, clientState, listeners, pos, handled, calls,
                 threw, registered, useToken, ws, awaiting, tokenCalls, reconnectTimeoutId, reconnectTimers,
                 isManualReconnect, stopped, userCalls>>

\* setTimeout(() => this.connect(), this.wsConfig.reconnectTimeout), set by
\* the close handler of socket i
ReconnectTimer(i) == [id |-> i, ms |-> ReconnectTimeout]

\* if (this.isManualReconnect)
ManualFlagSet == isManualReconnect

\* the "close" event of socket i
onClose(i) ==
  /\ i \in 1..Len(sock)
  /\ sock[i].state = "CLOSING"
  /\ sock' = [sock EXCEPT ![i].state = "CLOSED"]
  /\ connected' = FALSE
  /\ IF ManualFlagSet
     THEN /\ isManualReconnect' = FALSE
          /\ UNCHANGED <<reconnectTimeoutId, reconnectTimers>>
     ELSE /\ reconnectTimeoutId' = i
          /\ reconnectTimers' = reconnectTimers \cup {ReconnectTimer(i)}
          /\ UNCHANGED isManualReconnect
  /\ UNCHANGED <<serverVars, netVars, histVars, subVars, clientState, listeners, pos, handled, calls,
                 threw, registered, useToken, ws, awaiting, tokenCalls, stopped, userCalls>>

\* the connection of socket i ends without the client asking for it
TransportClose(i) ==
  /\ i \in Live(sock)
  /\ sock' = CloseSocket(sock, i, "transport")
  /\ UNCHANGED <<serverVars, netVars, histVars, subVars, clientState, listeners, pos, handled, calls,
                 threw, registered, useToken, ws, awaiting, tokenCalls, reconnectTimeoutId, reconnectTimers,
                 isManualReconnect, connected, stopped, userCalls>>

\* the "error" event of socket i, which then closes: this.ws?.close()
onError(i) ==
  /\ i \in Live(sock)
  /\ sock' = CloseSocket(CloseSocket(sock, i, "transport"), ws, "error")
  /\ UNCHANGED <<serverVars, netVars, histVars, subVars, clientState, listeners, pos, handled, calls,
                 threw, registered, useToken, ws, awaiting, tokenCalls, reconnectTimeoutId, reconnectTimers,
                 isManualReconnect, connected, stopped, userCalls>>

\* a reconnect timer expires: this.connect()
reconnectTimerFires ==
  \E t \in reconnectTimers :
    /\ reconnectTimers' = reconnectTimers \ {t}
    /\ LET c == connect(ws, sock, awaiting, tokenCalls)
       IN /\ ws' = c.ws
          /\ sock' = c.sock
          /\ awaiting' = c.awaiting /\ tokenCalls' = c.tokenCalls
    /\ UNCHANGED <<serverVars, netVars, histVars, subVars, clientState, listeners, pos, handled, calls,
                   threw, registered, useToken, reconnectTimeoutId, isManualReconnect, connected,
                   stopped, userCalls>>

\* clearTimeout(this.reconnectTimeoutId): the timer with that handle, if pending
ClearTimeout(ts, id) == {t \in ts : t.id # id}

\* reconnect()
reconnect ==
  /\ userCalls' = userCalls + 1
  /\ IF externalTransport
     THEN UNCHANGED <<ws, sock, awaiting, tokenCalls, reconnectTimeoutId, reconnectTimers,
                      isManualReconnect, connected, stopped>>
     ELSE /\ reconnectTimers' = ClearTimeout(reconnectTimers, reconnectTimeoutId)
          /\ reconnectTimeoutId' = 0
          /\ isManualReconnect' = (IF ws # 0 THEN TRUE ELSE isManualReconnect)
          /\ connected' = FALSE
          /\ stopped' = FALSE
          /\ LET c == connect(0, CloseSocket(sock, ws, "user"), awaiting, tokenCalls)
             IN /\ ws' = c.ws
                /\ sock' = c.sock
                /\ awaiting' = c.awaiting /\ tokenCalls' = c.tokenCalls
  /\ UNCHANGED <<serverVars, netVars, histVars, subVars, clientState, listeners, pos, handled, calls,
                 threw, registered, useToken>>

\* disconnect()
disconnect ==
  /\ userCalls' = userCalls + 1
  /\ IF externalTransport
     THEN UNCHANGED <<ws, sock, awaiting, tokenCalls, reconnectTimeoutId, reconnectTimers,
                      isManualReconnect, connected, stopped>>
     ELSE /\ reconnectTimers' = ClearTimeout(reconnectTimers, reconnectTimeoutId)
          /\ reconnectTimeoutId' = 0
          /\ isManualReconnect' = (IF ws # 0 THEN TRUE ELSE isManualReconnect)
          /\ sock' = CloseSocket(sock, ws, "user")
          /\ ws' = 0
          /\ connected' = FALSE
          /\ stopped' = TRUE
          /\ UNCHANGED <<awaiting, tokenCalls>>
  /\ UNCHANGED <<serverVars, netVars, histVars, subVars, clientState, listeners, pos, handled, calls,
                 threw, registered, useToken>>

\* ----------------------------------------------------------- subscription
Teardowns == {"t", "x"}
\* teardown functions that throw when called
ThrowingTeardowns == {"x"}

\* the teardown add(B) pushes for a handle: () => teardown.unsubscribe()
HandleB == "B"

\* A = new YuzuSubscription(unsubscribe?) and B = new YuzuSubscription(unsubscribe?)
InitHandles(firsts, firstsB) ==
  /\ unsubFunctions \in {<<>>} \cup {<<t>> : t \in firsts}
  /\ subClosed = FALSE
  /\ ran = [i \in 1..Len(unsubFunctions) |-> 0]
  /\ unsubCalls = 0
  /\ lateRun = FALSE
  /\ lateThrow = FALSE
  /\ bFunctions \in {<<>>} \cup {<<t>> : t \in firstsB}
  /\ bClosed = FALSE
  /\ bRan = [i \in 1..Len(bFunctions) |-> 0]
  /\ bCalls = 0
  /\ attachedOpen = FALSE
  /\ stack = <<>>
  /\ overflow = FALSE

\* new YuzuSubscription(unsubscribe?)
InitSubscription(firsts) == InitHandles(firsts, {})

\* add(teardown) with a plain function
add(teardown) ==
  /\ unsubFunctions' = Append(unsubFunctions, teardown)
  /\ ran' = Append(ran, 0)
  /\ UNCHANGED <<serverVars, netVars, histVars, clientState, listeners, pos, handled, calls,
                 threw, registered, connVars, stack, overflow, subClosed, unsubCalls, lateRun, lateThrow,
                 bFunctions, bClosed, bRan, bCalls, attachedOpen>>

\* B.add(teardown) with a plain function
addB(teardown) ==
  /\ bFunctions' = Append(bFunctions, teardown)
  /\ bRan' = Append(bRan, 0)
  /\ UNCHANGED <<serverVars, netVars, histVars, clientState, listeners, pos, handled, calls,
                 threw, registered, connVars, stack, overflow, unsubFunctions, subClosed, ran, unsubCalls, lateRun,
                 lateThrow, bClosed, bCalls, attachedOpen>>

\* A.add(B): teardown.unsubscribe is a function, so a wrapper is pushed
addHandle ==
  /\ unsubFunctions' = Append(unsubFunctions, HandleB)
  /\ ran' = Append(ran, 0)
  /\ attachedOpen' = ~subClosed
  /\ UNCHANGED <<serverVars, netVars, histVars, clientState, listeners, pos, handled, calls,
                 threw, registered, connVars, stack, overflow, subClosed, unsubCalls, lateRun, lateThrow,
                 bFunctions, bClosed, bRan, bCalls>>

\* calling the teardown now ends by an exception: it throws itself, or it is
\* the wrapper of B and B.unsubscribe() throws
ThrowsNow(fn) ==
  \/ fn \in ThrowingTeardowns
  \/ fn = HandleB /\ ~bClosed /\ \E i \in 1..Len(bFunctions) : bFunctions[i] \in ThrowingTeardowns

\* the teardowns the loop of unsubscribe() calls: up to and including the
\* first that throws
Reached(fns) ==
  {i \in 1..Len(fns) : \A j \in 1..(i - 1) : ~ThrowsNow(fns[j])}

\* the loop ends by an exception
LoopThrows(fns) == \E i \in 1..Len(fns) : ThrowsNow(fns[i])

\* B.unsubscribe() as it runs when called now
UnsubscribeB ==
  IF bClosed THEN UNCHANGED <<bClosed, bRan>>
  ELSE /\ bRan' = [i \in 1..Len(bRan) |->
                     IF i \in Reached(bFunctions) THEN bRan[i] + 1 ELSE bRan[i]]
       /\ bClosed' = ~LoopThrows(bFunctions)

\* B.unsubscribe() called by the user
unsubscribeB ==
  /\ bCalls' = bCalls + 1
  /\ UnsubscribeB
  /\ UNCHANGED <<serverVars, netVars, histVars, clientState, listeners, pos, handled, calls,
                 threw, registered, connVars, stack, overflow, unsubFunctions, subClosed, ran, unsubCalls, lateRun,
                 lateThrow, bFunctions, attachedOpen>>

\* unsubscribe()
unsubscribe ==
  /\ unsubCalls' = unsubCalls + 1
  /\ IF subClosed
     THEN UNCHANGED <<subClosed, ran, lateRun, lateThrow>>
     ELSE /\ ran' = [i \in 1..Len(ran) |->
                      IF i \in Reached(unsubFunctions) THEN ran[i] + 1 ELSE ran[i]]
          /\ subClosed' = ~LoopThrows(unsubFunctions)
          /\ lateRun' = (lateRun \/ (unsubCalls > 0 /\ Reached(unsubFunctions) # {}))
          /\ lateThrow' = (lateThrow \/ (unsubCalls > 0 /\ LoopThrows(unsubFunctions)))
  /\ IF ~subClosed /\ \E i \in Reached(unsubFunctions) : unsubFunctions[i] = HandleB
     THEN UnsubscribeB
     ELSE UNCHANGED <<bClosed, bRan>>
  /\ UNCHANGED <<serverVars, netVars, histVars, clientState, listeners, pos, handled, calls,
                 threw, registered, connVars, stack, overflow, unsubFunctions, bFunctions, bCalls, attachedOpen>>

\* --------------------------------------------------------- specifications
\* new ServerUiState(InitialState, {batchDelay, externalTransport, ...})
InitServerIn(cfgs, modes, states) ==
  /\ config \in cfgs
  /\ externalTransport \in modes
  /\ batchDelay = ConfiguredDelay(config)
  /\ serverState \in states
  /\ patchBatch = <<>>
  /\ batchTimeout = FALSE
  /\ timers = {}
  /\ closed = FALSE
  /\ serverThrew = FALSE
  /\ frozen = {}
  /\ closedAt = [handed |-> 0, writes |-> 0, buffered |-> 0]
  /\ readyState = [c \in Clients |-> "NONE"]
  /\ wire = [c \in Clients |-> <<>>]
  /\ inbox = [c \in Clients |-> <<>>]
  /\ writes = <<>>
  /\ reads = 0
  /\ handed = <<>>

\* new ServerUiState(initial, config) with the initial state of the examples
InitServer(cfgs, modes) == InitServerIn(cfgs, modes, {InitialState})

\* the constructor's this.connect(), with or without getToken configured
InitTransport(tokens) ==
  /\ useToken \in tokens
  /\ reconnectTimeoutId = 0
  /\ reconnectTimers = {}
  /\ isManualReconnect = FALSE
  /\ connected = FALSE
  /\ stopped = FALSE
  /\ userCalls = 0
  /\ LET c == connect(0, <<>>, 0, 0)
     IN /\ ws = c.ws
        /\ sock = c.sock
        /\ awaiting = c.awaiting /\ tokenCalls = c.tokenCalls

\* new ClientUiState(initial, ...)
InitClient(initials) ==
  /\ clientState \in initials
  /\ listeners = <<>>
  /\ pos = 0
  /\ handled = <<>>
  /\ calls = <<>>
  /\ threw = FALSE
  /\ registered = <<>>
  /\ InitTransport({FALSE})
  /\ InitSubscription({})

Init ==
  /\ InitServer({NotConfigured, Configured(10)}, BOOLEAN)
  /\ InitClient({InitialState})

\* complete requests of endpoint c so far, answered or on their way
Requested(c) ==
  Cardinality({i \in 1..Len(wire[c]) : wire[c][i].type = "complete"})
    + Cardinality({i \in 1..Len(inbox[c]) : inbox[c][i] = "complete"})

\* an assignment server.state.<path>.<prop> = value with inputs from the given sets
WriteFrom(props, values) ==
  \E path \in ParentPaths, prop \in props, value \in values : Write(path, prop, value)

SomeWrite == WriteFrom(Keys, WriteValues)

\* The assigned values that change the initial state wherever they are written.
ObjectOrUndefined == WriteValues \ {Num(0)}

RequestedByAll == Requested("c1") + Requested("c2")

SomeClientSend(c) ==
  /\ RequestedByAll < MaxRequests
  /\ ClientSend(c, "complete")

\* The server, its batcher and its endpoints.
Next ==
  \/ Len(writes) < MaxWrites /\ WriteFrom({"a"}, ObjectOrUndefined)
  \/ sendBatch
  \/ \E c \in Clients : SocketOpen(c)
  \/ \E c \in Clients : SocketClose(c)
  \/ \E c \in Clients : SomeClientSend(c)
  \/ \E c \in Clients : ServerHandleMessage(c)

Spec == Init /\ [][Next]_vars

\* The mutation tracker alone: reads and writes through server.state.
NextTracker ==
  \/ Len(writes) < MaxSyncWrites /\ SomeWrite
  \/ reads < MaxReads /\ \E path \in ParentPaths, prop \in Keys : Read(path, prop)
  \/ sendBatch

InitTracker ==
  /\ InitServer(ConfigDelays, BOOLEAN)
  /\ InitClient({InitialState})

SpecTracker == InitTracker /\ [][NextTracker]_vars

\* One client on its connection, end to end.
NextSync ==
  \/ Len(writes) < MaxSyncWrites /\ SomeWrite
  \/ sendBatch
  \/ SocketOpen(Me)
  \/ SomeClientSend(Me)
  \/ ServerHandleMessage(Me)
  \/ ClientReceive

SpecSync == Init /\ [][NextSync]_vars

\* The client's transport in WebSocket mode: sockets, their events, the
\* reconnect timer and the user's reconnect() and disconnect().
NextConn ==
  \/ connectResumes
  \/ \E i \in 1..MaxSockets : onOpen(i)
  \/ \E i \in 1..MaxSockets : onClose(i)
  \/ \E i \in 1..MaxSockets : TransportClose(i)
  \/ \E i \in 1..MaxSockets : onError(i)
  \/ Len(sock) + awaiting < MaxSockets /\ reconnectTimerFires
  \/ userCalls < MaxUserCalls /\ Len(sock) + awaiting < MaxSockets /\ reconnect
  \/ userCalls < MaxUserCalls /\ disconnect

InitConn ==
  /\ InitServer({NotConfigured}, BOOLEAN)
  /\ clientState = InitialState
  /\ listeners = <<>>
  /\ pos = 0
  /\ handled = <<>>
  /\ calls = <<>>
  /\ threw = FALSE
  /\ registered = <<>>
  /\ InitTransport(BOOLEAN)
  /\ InitSubscription({})

SpecConn == InitConn /\ [][NextConn]_vars

\* The same with the scheduling the run time gives: an event of a socket
\* that is due is delivered, a timer that is due fires, a suspended connect()
\* resumes once its token has resolved.  Transport failures and user calls
\* may or may not happen.
TimerFiresInBound == Len(sock) + awaiting < MaxSockets /\ reconnectTimerFires

FairConn ==
  /\ \A i \in 1..MaxSockets : WF_vars(onOpen(i)) /\ WF_vars(onClose(i))
  /\ WF_vars(TimerFiresInBound)
  /\ WF_vars(connectResumes)

SpecConnFair == InitConn /\ [][NextConn]_vars /\ FairConn

\* A subscription handle: teardowns are added and unsubscribe() is called.
NextSubscription ==
  \/ Len(unsubFunctions) < MaxTeardowns /\ \E t \in Teardowns : add(t)
  \/ unsubCalls < MaxUnsubCalls /\ unsubscribe

InitSubscriptionOnly ==
  /\ InitServer({NotConfigured}, {TRUE})
  /\ clientState = InitialState
  /\ listeners = <<>>
  /\ pos = 0
  /\ handled = <<>>
  /\ calls = <<>>
  /\ threw = FALSE
  /\ registered = <<>>
  /\ InitTransport({FALSE})
  /\ InitSubscription(Teardowns)

SpecSubscription == InitSubscriptionOnly /\ [][NextSubscription]_vars

\* Two subscription handles, the second added to the first.
NextComposite ==
  \/ Len(unsubFunctions) < MaxTeardowns /\ \E t \in Teardowns : add(t)
  \/ Len(bFunctions) < MaxTeardowns - 1 /\ \E t \in Teardowns : addB(t)
  \/ (\A i \in 1..Len(unsubFunctions) : unsubFunctions[i] # HandleB)
       /\ Len(unsubFunctions) < MaxTeardowns /\ addHandle
  \/ unsubCalls < MaxUnsubCalls - 1 /\ unsubscribe
  \/ bCalls < MaxUnsubCalls - 1 /\ unsubscribeB

InitComposite ==
  /\ InitServer({NotConfigured}, {TRUE})
  /\ clientState = InitialState
  /\ listeners = <<>>
  /\ pos = 0
  /\ handled = <<>>
  /\ calls = <<>>
  /\ threw = FALSE
  /\ registered = <<>>
  /\ InitTransport({FALSE})
  /\ InitHandles(Teardowns, Teardowns)

SpecComposite == InitComposite /\ [][NextComposite]_vars

\* The client over its life: its transport, its listeners and the messages
\* it is given, in WebSocket mode and in external mode.
LifecycleMessages == {CompleteMsg(InitialState), PatchMsg(<<"a">>, Num(1))}

NextLifecycle ==
  \/ \E i \in 1..MaxSockets : onOpen(i)
  \/ \E i \in 1..MaxSockets : onClose(i)
  \/ \E i \in 1..MaxSockets : TransportClose(i)
  \/ Len(sock) + awaiting < MaxSockets - 1 /\ reconnectTimerFires
  \/ userCalls < MaxUserCalls - 1 /\ Len(sock) + awaiting < MaxSockets - 1 /\ reconnect
  \/ userCalls < MaxUserCalls - 1 /\ disconnect
  \/ Len(listeners) < MaxListeners - 1 /\ \E path \in {<<>>, <<"a">>} : subscribe(Victim, path)
  \/ unsubscribeListener(Victim)
  \/ \E i \in 1..MaxSockets, msg \in LifecycleMessages : onMessage(i, msg)
  \/ \E msg \in LifecycleMessages : handleServerMessage(msg)

InitLifecycle ==
  /\ InitServer({NotConfigured}, BOOLEAN)
  /\ InitClient({InitialState})

SpecLifecycle == InitLifecycle /\ [][NextLifecycle]_vars

\* Inbound messages, well-formed or not, at the server and at the client in
\* both modes.
BadPatch == [path |-> <<"c", "a">>, value |-> Num(1)]
GoodPatch == [path |-> <<"b">>, value |-> Num(1)]
MalformedMessages ==
  {NotJson, JsonNull, PatchWithoutPatch, PatchMsg(BadPatch.path, BadPatch.value),
   PatchBatchMsg(<<GoodPatch, BadPatch>>)}
InboundMessages == MalformedMessages \cup {UnknownType, PatchMsg(GoodPatch.path, GoodPatch.value)}

NextInbound ==
  \/ SocketOpen(Me)
  \/ \E type \in InboundTypes :
       Len(inbox[Me]) + Len(handed) < MaxInbound /\ ClientSend(Me, type)
  \/ ServerHandleMessage(Me)
  \/ \E i \in 1..MaxSockets : onOpen(i)
  \/ Len(listeners) < MaxListeners - 1 /\ \E path \in {<<>>, <<"b">>} : subscribe(Victim, path)
  \/ \E i \in 1..MaxSockets, msg \in InboundMessages : onMessage(i, msg)
  \/ \E msg \in InboundMessages : handleServerMessage(msg)

InitInbound == InitServer({NotConfigured}, BOOLEAN) /\ InitClient({InitialState})

SpecInbound == InitInbound /\ [][NextInbound]_vars


\* One server in immediate mode and one client that starts from a deep copy
\* of the server's state: assignments of JSON values and their patches.
RoundTripStates ==
  {InitialState, Obj(Props2("a", Num(0), "b", Num(0))),
   Obj(Props2("a", Obj(Props1("a", Obj(Props1("a", Num(0))))), "b", Null))}
RoundTripParents == {<<>>, <<"a">>, <<"a", "a">>}
JsonValues == {Num(1), Null, Obj(NoProps), Obj(Props1("a", Num(1)))}

NextRoundTrip ==
  \/ SocketOpen(Me)
  \/ /\ readyState[Me] = "OPEN"
     /\ Len(writes) < MaxWrites
     /\ \E path \in RoundTripParents, prop \in Keys \cup {"c"}, value \in JsonValues :
          Write(path, prop, value)
  \/ ClientReceive

InitRoundTrip ==
  /\ InitServerIn({NotConfigured, Configured(0)}, {FALSE}, RoundTripStates)
  /\ InitClient({serverState})

SpecRoundTrip == InitRoundTrip /\ [][NextRoundTrip]_vars


\* A batching server whose first batch the client handles twice.
NextReplay ==
  \/ SocketOpen(Me)
  \/ /\ readyState[Me] = "OPEN"
     /\ Len(writes) < MaxBatchWrites
     /\ handed = <<>>
     /\ WriteFrom(Keys, {Num(1), Null})
  \/ sendBatch
  \/ ClientReceive
  \/ ReceiveAgain

InitReplay ==
  /\ InitServer({Configured(10)}, {FALSE})
  /\ InitClient({InitialState})

SpecReplay == InitReplay /\ [][NextReplay]_vars


\* The server with objects of its state frozen by the host.
\* the patches in the messages handed over and in the buffer
RECURSIVE PatchCount(_)
PatchCount(hs) ==
  IF hs = <<>> THEN 0
  ELSE (IF Head(hs).msg.type = "complete" THEN 0 ELSE Len(Head(hs).msg.patches))
         + PatchCount(Tail(hs))

EmittedCount == Len(patchBatch) + PatchCount(handed)

NextFrozen ==
  \/ \E path \in ParentPaths : Freeze(path)
  \/ EmittedCount < MaxWrites /\ WriteFrom(Keys, {Num(1), Obj(Props1("a", Num(1)))})
  \/ sendBatch
  \/ SocketOpen(Me)

InitFrozen ==
  /\ InitServer({NotConfigured, Configured(10)}, {FALSE})
  /\ InitClient({InitialState})

SpecFrozen == InitFrozen /\ [][NextFrozen]_vars

\* The batcher over the server's life: writes, timers and close().
NextBatcher ==
  \/ Len(writes) < MaxSyncWrites /\ WriteFrom({"a"}, WriteValues)
  \/ sendBatch
  \/ ~closed /\ close
  \/ SocketOpen(Me)

InitBatcher ==
  /\ InitServer({Configured(10)}, BOOLEAN)
  /\ InitClient({InitialState})

SpecBatcher == InitBatcher /\ [][NextBatcher]_vars

\* The client alone: listeners are registered, then one message of any shape
\* the wire schema allows is handled.
ClientInitialStates == {InitialState, Obj(Props2("a", Num(0), "b", Num(0)))}
ListenerPaths == {<<>>, <<"a">>, <<"a", "a">>, <<"b">>}
PatchPaths == {<<>>, <<"a">>, <<"a", "a">>, <<"b">>, <<"a", "a", "a">>}
PatchValues == {Num(1), Undef, Obj(Props1("a", Num(1)))}
CompleteStates == {Obj(Props2("a", Obj(Props1("a", Num(1))), "b", Num(1))),
                   Obj(Props1("b", Num(1))), Null}
Patches == [path : PatchPaths, value : PatchValues]
Batches == UNION {[1..n -> Patches] : n \in 1..MaxBatchLen}
ServerMessages ==
  {CompleteMsg(st) : st \in CompleteStates}
    \cup {PatchMsg(p.path, p.value) : p \in Patches}
    \cup {PatchBatchMsg(ps) : ps \in Batches}

InitClientOnly ==
  /\ InitServer({NotConfigured}, {TRUE})
  /\ InitClient(ClientInitialStates)

NextClient ==
  \/ /\ handled = <<>>
     /\ Len(listeners) < MaxListeners
     /\ \E fn \in Fns, path \in ListenerPaths : subscribe(fn, path)
  \/ /\ handled = <<>>
     /\ \E msg \in ServerMessages : handleServerMessage(msg)

SpecClient == InitClientOnly /\ [][NextClient]_vars

\* The client's onChangeExisting and onChangeOptional, and patches.
OptionalPaths == {<<"a">>, <<"a", "a">>, <<"c">>}
OptionalPatches == {PatchMsg(p.path, p.value) : p \in [path : OptionalPaths, value : PatchValues]}

NextOptional ==
  \/ /\ Len(listeners) < MaxListeners
     /\ \E path \in OptionalPaths : onChangeExisting(Victim, path)
  \/ /\ Len(listeners) < MaxListeners
     /\ \E path \in OptionalPaths : onChangeOptional(Victim, path)
  \/ \E msg \in OptionalPatches : handleServerMessage(msg)

SpecOptional == InitClientOnly /\ [][NextOptional]_vars

\* The client's subscribable view state$ and patches.
ViewPaths == {<<>>, <<"a">>, <<"a", "a">>, <<"b">>}
ViewPatches == {PatchMsg(p.path, p.value) : p \in [path : {<<"a">>, <<"b">>}, value : PatchValues]}

NextView ==
  \/ /\ Len(listeners) < MaxListeners
     /\ \E path \in ViewPaths : subscribeThrough(Victim, path)
  \/ \E msg \in ViewPatches : handleServerMessage(msg)

SpecView == InitClientOnly /\ [][NextView]_vars

\* The client with a listener that unsubscribes another one while it runs,
\* over any number of messages.
UnsubMessages ==
  {CompleteMsg(InitialState),
   PatchMsg(<<"a">>, Num(1)),
   PatchBatchMsg(<<[path |-> <<"a">>, value |-> Num(1)], [path |-> <<"b">>, value |-> Num(1)]>>)}

NextUnsub ==
  \/ /\ Len(listeners) < MaxListeners
     /\ \E fn \in UnsubscribingFns \cup {Victim}, path \in {<<>>, <<"a">>, <<"b">>} :
          subscribe(fn, path)
  \/ \E msg \in UnsubMessages : handleServerMessage(msg)

SpecUnsub == InitClientOnly /\ [][NextUnsub]_vars

\* The client's registry: subscribe calls, the handles they returned, and
\* messages.
NextRegistry ==
  \/ /\ Len(listeners) < MaxListeners
     /\ \E fn \in Fns, path \in {<<>>, <<"a">>} : subscribe(fn, path)
  \/ \E i \in 1..MaxListeners : unsubscribeHandle(i)
  \/ \E msg \in UnsubMessages : handleServerMessage(msg)

SpecRegistry == InitClientOnly /\ [][NextRegistry]_vars

\* ------------------------------------------------------------ properties
IsPatchType(msg) == msg.type \in {"patch", "patch-batch"}

\* the patches of a sequence of messages, in order
RECURSIVE PatchesOf(_)
PatchesOf(msgs) ==
  IF msgs = <<>> THEN <<>>
  ELSE (IF IsPatchType(Head(msgs)) THEN Head(msgs).patches ELSE <<>>) \o PatchesOf(Tail(msgs))

HandedMsgs == [i \in 1..Len(handed) |-> handed[i].msg]
AsWritten(log) ==
  [i \in 1..Len(log) |-> [path |-> log[i].path, value |-> JsonRoundTrip(log[i].value)]]

GotComplete == \E i \in 1..pos : wire[Me][i].type = "complete"

\* the client has its snapshot, has processed everything sent to it, and
\* the server holds nothing back
Quiescent ==
  /\ readyState[Me] = "OPEN"
  /\ GotComplete
  /\ pos = Len(wire[Me])
  /\ patchBatch = <<>>

\* C1: once the client has received a complete reply and has processed every
\* message sent on its connection, and the server has nothing left to send,
\* the client's state is JSON-equal to the server's state, for any batchDelay.
C1_Convergence ==
  Quiescent => JsonRoundTrip(clientState) = JsonRoundTrip(serverState)

\* the same with batching disabled
C1_ConvergenceImmediate ==
  (batchDelay = 0 /\ Quiescent) => JsonRoundTrip(clientState) = JsonRoundTrip(serverState)

\* every patch emitted so far: those handed over and those still buffered
EmittedPatches ==
  PatchesOf(HandedMsgs)
    \o [i \in 1..Len(patchBatch) |-> [path |-> patchBatch[i].path, value |-> patchBatch[i].value]]

\* C2: every assignment through server.state, at any depth, emits exactly one
\* patch, with the full path from the root and the assigned value, also when
\* the value equals the old one or replaces a sub-tree; a read emits nothing.
C2_OnePatchPerWrite ==
  [][/\ writes' # writes =>
          LET w == writes'[Len(writes')]
          IN /\ Len(EmittedPatches') = Len(EmittedPatches) + 1
             /\ Last(EmittedPatches').path = w.path
             /\ Last(EmittedPatches').value =
                  IF batchDelay > 0 THEN w.value ELSE JsonRoundTrip(w.value)
     /\ reads' # reads =>
          /\ EmittedPatches' = EmittedPatches
          /\ serverState' = serverState]_vars

\* three assignments, one below the root's children, one that repeats the old
\* value, one that replaces a sub-tree, and a read
C2_Witness ==
  /\ Len(writes) = 3
  /\ Len(EmittedPatches) = 3
  /\ reads > 0
  /\ writes[1] = [path |-> <<"b">>, value |-> Num(0)]
  /\ writes[2].path = <<"a">> /\ IsObject(writes[2].value)
  /\ Len(writes[3].path) = 2

\* the listeners invoked while the last message was handled
Invocations(i) == {k \in 1..Len(calls) : calls[k].l = i}
Invoked(i) == Invocations(i) # {}

\* the path exists in the tree: every segment is a property of the container
\* reached so far
RECURSIVE PathExists(_, _)
PathExists(st, path) ==
  \/ path = <<>>
  \/ /\ IsObject(st)
     /\ Head(path) \in DOMAIN st.f
     /\ PathExists(st.f[Head(path)], Tail(path))

LastMsg == handled[1].msg
\* the container a patch assigns into exists in the state the message met
Applies(st, patch) == IsObject(GetAt(st, Front(patch.path)))
RECURSIVE AllApply(_, _)
AllApply(st, patches) ==
  \/ patches = <<>>
  \/ /\ Applies(st, Head(patches))
     /\ AllApply(patchState(st, Head(patches).path, Head(patches).value).state, Tail(patches))

\* C3: on a patch message with path Q that the client applies, a listener
\* registered at P is invoked if and only if P is a prefix of Q.
C3_InvokedIffPrefix ==
  (handled # <<>> /\ LastMsg.type = "patch" /\ Applies(handled[1].before, LastMsg.patches[1])) =>
    \A i \in 1..Len(listeners) :
      Invoked(i) <=> IsPrefix(listeners[i].path, LastMsg.patches[1].path)

\* the same, when no registered listener function throws
C3_InvokedIffPrefixNoThrow ==
  (\A i \in 1..Len(listeners) : listeners[i].fn \notin ThrowingFns) => C3_InvokedIffPrefix

Matched(i) ==
  \E k \in 1..Len(LastMsg.patches) : IsPrefix(listeners[i].path, LastMsg.patches[k].path)

HandledBatch == handled # <<>> /\ LastMsg.type = "patch-batch"

\* C4 as claimed: on a patch-batch message the client applies, every listener
\* is invoked at most once, and it is invoked if and only if some patch path of
\* the batch has the listener's path as a prefix.
C4_OncePerBatchIffMatched ==
  (HandledBatch /\ AllApply(handled[1].before, LastMsg.patches)) =>
    \A i \in 1..Len(listeners) :
      /\ Cardinality(Invocations(i)) <= 1
      /\ Invoked(i) <=> Matched(i)

\* C4 amended: on a patch-batch message all of whose patches apply, every
\* listener is invoked at most once, and it is invoked if and only if some
\* patch path has its path as a prefix and its own path exists in the state
\* after the batch; when a patch of the batch fails to apply, no listener is
\* invoked.
C4_OncePerBatchIffMatchedAndPresent ==
  HandledBatch =>
    IF AllApply(handled[1].before, LastMsg.patches)
    THEN \A i \in 1..Len(listeners) :
           /\ Cardinality(Invocations(i)) <= 1
           /\ Invoked(i) <=> (Matched(i) /\ PathExists(clientState, listeners[i].path))
    ELSE calls = <<>>

\* a batch of two patches that both match the first listener, which is
\* invoked, and a second listener that is matched but whose path is gone
C4_Witness ==
  /\ HandledBatch
  /\ Len(LastMsg.patches) = 2
  /\ Len(listeners) = 2
  /\ AllApply(handled[1].before, LastMsg.patches)
  /\ \A k \in 1..2 : IsPrefix(listeners[1].path, LastMsg.patches[k].path)
  /\ Invoked(1)
  /\ Matched(2) /\ ~Invoked(2)

HandledComplete == handled # <<>> /\ LastMsg.type = "complete" /\ IsObject(LastMsg.state)

InvokedOnceWith(i, value, path) ==
  /\ Cardinality(Invocations(i)) = 1
  /\ \A k \in Invocations(i) : calls[k].value = value /\ calls[k].path = path

C5_CompleteIsStateAtService ==
  \A i \in 1..Len(handed) :
    handed[i].msg.type = "complete" =>
      handed[i].msg.state =
        JsonRoundTrip(Replay(InitialState, SubSeq(writes, 1, handed[i].nw)))

\* a reply serviced between two assignments while the first one's patch is
\* still buffered
C5_Witness ==
  \E i \in 1..Len(handed) :
    /\ handed[i].msg.type = "complete"
    /\ handed[i].nw = 1
    /\ handed[i].msg.state # InitialState
    /\ Len(writes) = 2
    /\ Len(patchBatch) = 2
    /\ serverState # handed[i].st

BroadcastsSeenBy(c) ==
  LET During(e) == IsPatchType(e.msg) /\ c \in e.open
      seen == SelectSeq(handed, During)
  IN [i \in 1..Len(seen) |-> seen[i].msg]

\* C7: every patch and patch-batch message is a broadcast (no clientId) and is
\* handed to every endpoint open when it is emitted, so each endpoint holds, in
\* order, exactly the patch messages emitted while it was open.
C7_PatchesAreBroadcast ==
  /\ \A i \in 1..Len(handed) :
       IsPatchType(handed[i].msg) =>
         handed[i].clientId = Broadcast /\ handed[i].to = handed[i].open
  /\ \A c \in Clients : SelectSeq(wire[c], IsPatchType) = BroadcastsSeenBy(c)

\* one patch message went to both endpoints, another to c1 alone
C7_Witness ==
  /\ \E i \in 1..Len(handed) : IsPatchType(handed[i].msg) /\ handed[i].to = Clients
  /\ \E i \in 1..Len(handed) : IsPatchType(handed[i].msg) /\ handed[i].to = {"c1"}
  /\ Len(SelectSeq(wire["c1"], IsPatchType)) = 2
  /\ Len(SelectSeq(wire["c2"], IsPatchType)) = 1

\* C9: with batchDelay zero, absent or negative, each assignment hands exactly
\* one patch message to the transport before it returns, the server state
\* already holds the new value at that moment, the messages leave in the order
\* of the assignments, and no patch-batch is ever sent.
C9_ImmediatePatches ==
  ~(config.given /\ config.ms > 0) =>
    /\ patchBatch = <<>>
    /\ ~batchTimeout
    /\ Len(handed) = Len(writes)
    /\ \A i \in 1..Len(handed) :
         /\ handed[i].msg.type = "patch"
         /\ handed[i].msg.patches =
              <<[path |-> writes[i].path, value |-> JsonRoundTrip(writes[i].value)]>>
         /\ handed[i].nw = i
         /\ GetAt(handed[i].st, writes[i].path) = writes[i].value

\* three patch messages under a negative configured delay
C9_Witness ==
  /\ config = Configured(-1)
  /\ Len(writes) = 3
  /\ Len(handed) = 3
  /\ writes[1].value # writes[2].value

\* C10: with batchDelay > 0 no patch message is sent, and the patches of the
\* batches sent so far are exactly the assignments made up to the last flush,
\* in order, none lost, duplicated or reordered.
C10_BatchesAreTheWrites ==
  batchDelay > 0 =>
    /\ \A i \in 1..Len(handed) : handed[i].msg.type # "patch"
    /\ PatchesOf(HandedMsgs) = AsWritten(SubSeq(writes, 1, Len(writes) - Len(patchBatch)))

\* the same for the paths alone
C10_BatchPathsAreTheWritePaths ==
  batchDelay > 0 =>
    /\ \A i \in 1..Len(handed) : handed[i].msg.type # "patch"
    /\ LET sent == PatchesOf(HandedMsgs)
       IN /\ Len(sent) = Len(writes) - Len(patchBatch)
          /\ \A i \in 1..Len(sent) : sent[i].path = writes[i].path

\* the writes whose patches the i-th hand-over carries in a batch
BatchedWrites(i) ==
  IF handed[i].msg.type = "patch-batch"
  THEN (handed[i].nw - Len(handed[i].msg.patches) + 1)..handed[i].nw
  ELSE {}

\* the i-th hand-over reached the transport: the host's callback in external
\* mode, a socket otherwise
ReachedTransport(i) == externalTransport \/ handed[i].to # {}

\* C11: with batchDelay > 0 at most one batch timer is pending; a patch
\* schedules a timer exactly when none is pending (the first patch into an
\* empty buffer, and the first patch after a flush), a patch that arrives
\* while one is pending leaves that very timer in place, and a flush leaves
\* none pending.
C11_OneBatchTimer ==
  [][/\ Cardinality(timers') <= 1
     /\ (batchDelay > 0 /\ Len(writes') > Len(writes))
          => timers' = (IF timers = {} THEN {Len(writes')} ELSE timers)
     /\ (patchBatch' = <<>>) => (timers' = {})]_vars

\* a timer set after a flush is pending with a second patch behind the first
C11_Witness ==
  /\ ~closed
  /\ timers = {2}
  /\ Len(patchBatch) = 2
  /\ Len(handed) = 1

\* the writes that were buffered when close() was called
BufferedAtClose == (closedAt.writes - closedAt.buffered + 1)..closedAt.writes

\* C12: patches still buffered when close() is called are never handed to
\* the transport afterwards.
C12_BufferedAtCloseDropped ==
  closed => \A i \in (closedAt.handed + 1)..Len(handed) :
              ReachedTransport(i) => BatchedWrites(i) \cap BufferedAtClose = {}

\* socket i delivers its close event in this step
Closes(i) == sock[i].state = "CLOSING" /\ sock'[i].state = "CLOSED"

\* socket i delivers its open event in this step
Opens(i) == sock[i].state = "CONNECTING" /\ sock'[i].state = "OPEN"

\* a reconnect timer expires in this step
TimerExpires == reconnectTimers' # reconnectTimers /\ reconnectTimers' \subseteq reconnectTimers
                  /\ userCalls' = userCalls

\* connect attempts made so far, suspended ones included
Attempts == Len(sock) + awaiting

\* C13: in WebSocket mode the close of a transport that neither disconnect()
\* nor reconnect() closed schedules exactly one reconnect timer with the
\* configured delay, and the expiry of a reconnect timer starts a connect
\* attempt.  Stated for the close of the client's current transport only.
C13_UnexpectedCloseSchedulesReconnect ==
  [][/\ \A i \in 1..Len(sock) :
          (Closes(i) /\ sock[i].by # "user" /\ ws = i)
            => /\ ReconnectTimer(i) \notin reconnectTimers
               /\ reconnectTimers' = reconnectTimers \cup {ReconnectTimer(i)}
     /\ TimerExpires => Attempts' = Attempts + 1]_vars

\* the same where no manual flag is left over from an earlier call
C13_UnexpectedCloseWithoutStaleFlag ==
  [][\A i \in 1..Len(sock) :
        (Closes(i) /\ sock[i].by # "user" /\ ws = i /\ ~isManualReconnect)
          => reconnectTimers' = reconnectTimers \cup {ReconnectTimer(i)}]_vars

\* C14: between a disconnect() and the next reconnect() the client creates
\* no transport and schedules no reconnect timer.
C14_DisconnectedStaysDisconnected ==
  [][(stopped /\ stopped')
       => (Len(sock') = Len(sock) /\ reconnectTimers' \subseteq reconnectTimers)]_vars

\* C15: at most one connecting or open transport and at most one pending
\* reconnect timer.
C15_OneTransportOneTimer ==
  /\ Cardinality(Live(sock)) <= 1
  /\ Cardinality(reconnectTimers) <= 1

\* C16: reconnect() and disconnect() leave no reconnect timer pending.
C16_UserCallCancelsTimers ==
  [][(userCalls' > userCalls /\ ~externalTransport) => reconnectTimers' = {}]_vars

\* the timer the client holds the handle of is cancelled
C16_UserCallCancelsHeldTimer ==
  [][(userCalls' > userCalls /\ ~externalTransport)
       => ReconnectTimer(reconnectTimeoutId) \notin reconnectTimers']_vars

\* C17: the open of a transport sends exactly one complete request, on that
\* transport, and connected becomes true in that step and in no other.
C17_OpenSendsComplete ==
  [][/\ \A i \in 1..Len(sock) :
          Opens(i) => /\ sock'[i].requests = sock[i].requests + 1
                      /\ \A j \in 1..Len(sock) \ {i} : sock'[j].requests = sock[j].requests
                      /\ connected'
     /\ (connected' /\ ~connected) => \E i \in 1..Len(sock) : Opens(i)]_vars

\* the same for the open of the client's current transport
C17_OpenOfCurrentSendsComplete ==
  [][\A i \in 1..Len(sock) :
        (Opens(i) /\ ws = i) => /\ sock'[i].requests = sock[i].requests + 1
                                /\ connected']_vars

\* the last message updated the client state without an exception
Updated ==
  IF LastMsg.type = "complete" THEN IsObject(LastMsg.state)
  ELSE AllApply(handled[1].before, LastMsg.patches)

\* the last message matches listener i
MatchedBy(i) == LastMsg.type = "complete" \/ Matched(i)

\* every listener the last message matches can be given its value
MatchedArePresent ==
  \A i \in 1..Len(listeners) : MatchedBy(i) => PathExists(clientState, listeners[i].path)

\* C18: for a complete, patch or patch-batch message, when listener
\* functions throw, no exception leaves the message handler and every
\* listener the message matches is still invoked.
C18_ListenerExceptionsSwallowed ==
  (handled # <<>> /\ Updated /\ MatchedArePresent) =>
    /\ ~threw
    /\ \A i \in 1..Len(listeners) : MatchedBy(i) => Invoked(i)

\* the same for complete and patch-batch messages
C18_SwallowedUnlessPatch ==
  (handled # <<>> /\ LastMsg.type # "patch") => C18_ListenerExceptionsSwallowed

\* C19: once unsubscribe() of a listener's handle has returned, the listener
\* is not invoked again, also when another listener called it in the middle
\* of a notification round.
C19_NotInvokedAfterUnsubscribe ==
  \A k \in 1..Len(calls) :
    calls[k].fn = Victim => \A j \in 1..(k - 1) : calls[j].fn \notin UnsubscribingFns

\* a round that starts after the unsubscribe() does not invoke the listener
C19_NotInvokedInLaterRounds ==
  [][(calls' # calls /\ \A i \in 1..Len(listeners) : listeners[i].fn # Victim)
       => \A k \in 1..Len(calls') : calls'[k].fn # Victim]_vars

\* C20: over any number of unsubscribe() calls every registered teardown
\* runs at most once, calls after the first run no teardown and do not
\* throw, and closed is true once the first call is over, also when a
\* teardown threw in it.
C20_UnsubscribeIdempotent ==
  /\ \A i \in 1..Len(ran) : ran[i] <= 1
  /\ ~lateRun
  /\ ~lateThrow
  /\ unsubCalls >= 1 => subClosed

\* the same for handles none of whose teardowns throws
C20_IdempotentWithoutThrow ==
  (\A i \in 1..Len(unsubFunctions) : unsubFunctions[i] \notin ThrowingTeardowns)
    => C20_UnsubscribeIdempotent

\* B has been added to A
Attached == \E i \in 1..Len(unsubFunctions) : unsubFunctions[i] = HandleB

\* A.unsubscribe() is called in this step
UnsubscribesA == unsubCalls' = unsubCalls + 1

\* C21: after A.add(B), a call of A.unsubscribe() leaves A and B closed with
\* every teardown of A and of B run, and whatever the order of the calls to
\* A.unsubscribe() and B.unsubscribe(), no teardown of B runs twice and a
\* closed B has run each of its teardowns once.
C21_CompositeTeardown ==
  [][/\ (Attached /\ UnsubscribesA)
          => /\ subClosed' /\ bClosed'
             /\ \A i \in 1..Len(ran') : ran'[i] >= 1
             /\ \A i \in 1..Len(bRan') : bRan'[i] = 1
     /\ \A i \in 1..Len(bRan') : bRan'[i] <= 1]_vars

\* the same for teardowns that do not throw and a B added to an open A; a
\* teardown added to B after B was closed stays unrun
C21_CompositeWithoutThrow ==
  [][(/\ \A i \in 1..Len(unsubFunctions) : unsubFunctions[i] \notin ThrowingTeardowns
      /\ \A i \in 1..Len(bFunctions) : bFunctions[i] \notin ThrowingTeardowns
      /\ Attached /\ attachedOpen /\ UnsubscribesA)
       => /\ subClosed' /\ bClosed'
          /\ \A i \in 1..Len(bRan') : bRan'[i] <= 1
          /\ ~bClosed => \A i \in 1..Len(bRan') : bRan'[i] = 1]_vars

\* ------------------------------------------------------------------ C22
\* a step in which the transport, the user calls or the processed message
\* change
TransportOrMessageStep == connVars' # connVars \/ handled' # handled \/ calls' # calls

\* a step of subscribe() or of the returned handle's unsubscribe()
RegistryStep ==
  \/ \E l \in [fn : {Victim}, path : {<<>>, <<"a">>}] : listeners' = Append(listeners, l)
  \/ listeners' = removeListener(listeners, Victim)

\* the registry is left alone by everything but subscribe and unsubscribe,
\* and the listeners registered when a message is processed are invoked
RegistryKept ==
  /\ listeners' # listeners => RegistryStep /\ ~TransportOrMessageStep
  /\ TransportOrMessageStep => listeners' = listeners
  /\ (handled' # handled \/ calls' # calls) =>
       \A i \in 1..Len(listeners) : \E k \in 1..Len(calls') : calls'[k].l = i

ExternalModeHasNoConnection ==
  externalTransport =>
    /\ ~connected
    /\ sock = <<>> /\ ws = 0 /\ awaiting = 0
    /\ reconnectTimers = {} /\ reconnectTimeoutId = 0
    /\ ~isManualReconnect /\ ~stopped
    /\ handled # <<>> =>
         /\ LastMsg.type = "complete" => clientState = LastMsg.state
         /\ LastMsg.type = "patch" =>
              GetAt(clientState, LastMsg.patches[1].path) = LastMsg.patches[1].value

\* reconnect() and disconnect() in external transport mode change nothing
\* but the count of the calls
UserCallsChangeNothing ==
  externalTransport /\ userCalls' # userCalls =>
    UNCHANGED <<clientState, listeners, pos, handled, calls, threw, registered, useToken, ws, sock,
                awaiting, tokenCalls, reconnectTimeoutId, reconnectTimers, isManualReconnect,
                connected, stopped, serverVars, netVars>>

\* C23: in external transport mode isConnected is false in every state,
\* reconnect() and disconnect() change no state, create no transport and send
\* nothing, and the messages given to handleServerMessage are still applied.
C23_ExternalMode == []ExternalModeHasNoConnection /\ [][UserCallsChangeNothing]_vars

\* an external-mode client on which reconnect() or disconnect() was called
\* and which then applied a patch handed over by the host
C23_Witness ==
  /\ externalTransport
  /\ userCalls >= 1
  /\ handled # <<>>
  /\ LastMsg.type = "patch"
  /\ clientState # InitialState

\* ------------------------------------------------------------------ C24
\* the client processes a malformed message in this step
ClientGetsMalformed == handled' # handled /\ handled'[1].msg \in MalformedMessages

\* the server processes a malformed message of endpoint c in this step
ServerGetsMalformed(c) ==
  /\ inbox[c] # <<>>
  /\ inbox'[c] = Tail(inbox[c])
  /\ Head(inbox[c]) \in {"not-json", "json-null"}

\* a malformed message is discarded: nothing is thrown out of the handler,
\* the receiver's state and its connections are as before
MalformedDiscarded ==
  /\ ClientGetsMalformed =>
       ~threw' /\ clientState' = clientState /\ sock' = sock /\ listeners' = listeners
  /\ \A c \in Clients : ServerGetsMalformed(c) =>
       ~serverThrew' /\ serverState' = serverState /\ readyState' = readyState

\* C24: a malformed inbound message is discarded by the server and by the
\* client in both modes: no exception leaves the message handler, the
\* receiver's state is what it was before, the connection stays open.
C24_MalformedDiscarded == [][MalformedDiscarded]_vars

\* what the code does: in external transport mode nothing is thrown out of
\* handleServerMessage or handleClientMessage, and a malformed message that
\* is not a batch leaves the state as it was; in every mode the connection
\* stays open
C24_CaughtInExternalMode ==
  [][/\ ClientGetsMalformed =>
          /\ sock' = sock /\ listeners' = listeners
          /\ externalTransport => ~threw'
          /\ handled'[1].msg.type # "patch-batch" => clientState' = clientState
     /\ \A c \in Clients : ServerGetsMalformed(c) =>
          /\ serverState' = serverState /\ readyState' = readyState
          /\ externalTransport => ~serverThrew']_vars

\* ------------------------------------------------------------------ C25
\* a message of an unknown type is ignored by the client and by the server
UnknownIgnored ==
  /\ (handled' # handled /\ handled'[1].msg = UnknownType) =>
       /\ ~threw' /\ calls' = <<>>
       /\ clientState' = clientState /\ listeners' = listeners
  /\ \A c \in Clients :
       (inbox[c] # <<>> /\ inbox'[c] = Tail(inbox[c]) /\ Head(inbox[c]) = "ping") =>
         /\ ~serverThrew'
         /\ serverState' = serverState
         /\ wire' = wire /\ handed' = handed

\* C25: a well-formed message of a type that is not known is ignored without
\* error: the client keeps its state and listeners and invokes no listener,
\* the server keeps its state and sends nothing.
C25_UnknownTypeIgnored == [][UnknownIgnored]_vars

\* the client, with a listener registered, has processed a message of an
\* unknown type
C25_Witness ==
  /\ handled # <<>>
  /\ LastMsg = UnknownType
  /\ Len(listeners) >= 1
  /\ calls = <<>>
  /\ ~threw

\* ------------------------------------------------------------------ C26
\* the last message was a patch with the empty path
HandledRootPatch ==
  handled # <<>> /\ LastMsg.type = "patch" /\ LastMsg.patches[1].path = <<>>

\* C26: a patch with the empty path replaces the client's entire state by
\* the patch value, and the listeners at every path (whose path the new
\* state holds) are invoked.
C26_RootPatchReplacesState ==
  HandledRootPatch =>
    /\ clientState = LastMsg.patches[1].value
    /\ \A i \in 1..Len(listeners) :
         (PathExists(LastMsg.patches[1].value, listeners[i].path)
            /\ \A j \in 1..Len(listeners) : listeners[j].fn \notin ThrowingFns)
           => Invoked(i)

\* what the code does: the value is assigned to the property named
\* "undefined" of the root, and the listeners invoked are listeners at the
\* empty path
C26_RootPatchSetsUndefinedKey ==
  HandledRootPatch =>
    /\ clientState = SetProp(handled[1].before, "undefined", LastMsg.patches[1].value)
    /\ \A i \in 1..Len(listeners) : Invoked(i) => listeners[i].path = <<>>

\* ------------------------------------------------------------------ C27
\* C27: round trip of a write.  When the client, which started from a deep
\* copy of the server's state, has applied the patch emitted for each
\* assignment of a JSON value below an existing parent, its state equals the
\* server's state after the assignment.
C27_WriteRoundTrip ==
  (pos = Len(writes) /\ pos = Len(wire[Me])) => ~threw /\ clientState = serverState

\* the client has applied the patch of an assignment two levels down that
\* changed the state
C27_Witness ==
  /\ pos = 1
  /\ Len(writes) = 1
  /\ Len(writes[1].path) >= 2
  /\ handled # <<>>
  /\ clientState # handled[1].before
  /\ clientState = serverState

\* ------------------------------------------------------------------ C28
\* the client handles once more the batch it handled last
Reapplies == pos' = pos /\ pos > 0 /\ handled' # <<>> /\ handled'[1].msg = wire[Me][pos]

\* C28: applying a batch emitted by the server a second time leaves the
\* client's state as the first application left it.
C28_BatchIdempotent == [][Reapplies => clientState' = clientState]_vars

\* what the code does: the second application leaves the state unchanged
\* when none of its patches throws
C28_IdempotentUnlessThrown == [][(Reapplies /\ ~threw') => clientState' = clientState]_vars

\* ------------------------------------------------------------------ C29
\* the sockets made by connect() calls that fetched a token
WithToken == {i \in 1..Len(sock) : sock[i].token # 0}

\* getToken has been called once for every connect attempt, and every
\* transport carries the token of an attempt of its own
TokenPerAttempt ==
  IF useToken /\ ~externalTransport
  THEN /\ tokenCalls = Attempts
       /\ WithToken = 1..Len(sock)
       /\ \A i \in WithToken : sock[i].token \in 1..tokenCalls
       /\ \A i, j \in WithToken : sock[i].token = sock[j].token => i = j
       /\ awaiting = Cardinality(Pending)
  ELSE tokenCalls = 0 /\ WithToken = {}

\* a step that calls getToken creates no transport, and a transport created
\* with a token is created in a later step than the call that returned it
TokenBeforeTransport ==
  /\ tokenCalls' # tokenCalls => tokenCalls' = tokenCalls + 1 /\ Len(sock') = Len(sock)
  /\ (useToken /\ Len(sock') > Len(sock)) =>
       /\ Len(sock') = Len(sock) + 1
       /\ sock'[Len(sock')].token \in 1..tokenCalls
       /\ \A i \in 1..Len(sock) : sock[i].token # sock'[Len(sock')].token

\* C29: with getToken configured it is called exactly once per connect
\* attempt (the first connect, every automatic reconnect, every reconnect()),
\* the transport of an attempt is created only after its token has resolved,
\* and with the token returned for that attempt.
C29_TokenPerAttempt == []TokenPerAttempt /\ [][TokenBeforeTransport]_vars

\* three attempts have fetched a token each, the transport of the latest
\* attempt exists while an earlier attempt is still waiting for its token
C29_Witness ==
  /\ useToken
  /\ tokenCalls = 3
  /\ userCalls >= 1
  /\ awaiting = 1
  /\ Len(sock) = 2
  /\ sock[2].token = 3

\* ------------------------------------------------------------------ C30
\* a call of onChangeExisting or onChangeOptional is made in this step
Registers(kind) == registered' # registered /\ registered'[1].kind = kind

\* the message handled in this step is a patch, and the path exists after it
\* and did not before
Creates(path) ==
  /\ handled' # handled
  /\ handled'[1].msg.type = "patch"
  /\ ~PathExists(clientState, path)
  /\ PathExists(clientState', path)

\* the calls of the listeners at that path in the step's notification round
FiresAt(path) ==
  \A i \in 1..Len(listeners) :
    listeners[i].path = path => \E k \in 1..Len(calls') : calls'[k].l = i

\* onChangeExisting throws on a missing path and registers nothing;
\* onChangeOptional registers without throwing
RegistersOrThrows ==
  /\ (Registers("existing") /\ ~PathExists(clientState, registered'[1].path)) =>
       registered'[1].threw /\ listeners' = listeners
  /\ Registers("optional") =>
       /\ ~registered'[1].threw
       /\ listeners' = Append(listeners, [path |-> registered'[1].path, fn |-> registered'[1].fn])

C30_OptionalFiresOnPatchAtPath ==
  [][/\ RegistersOrThrows
     /\ \A path \in OptionalPaths :
          (Creates(path) /\ PathMet(path, handled'[1].msg.patches[1].path)) => FiresAt(path)]_vars

\* ------------------------------------------------------------------ C31
\* state$.<path>.subscribe(fn) is evaluated in this step: where the path
\* leads to an object, fn is registered at exactly that path; where it leads
\* to a primitive or nowhere there is no subscribe to call; the plain state
\* is the same after the reads
ViewSubscribes(paths) ==
  (Registers("state$") /\ registered'[1].path \in paths) =>
    /\ clientState' = clientState
    /\ IF IsObject(GetAt(clientState, registered'[1].path))
       THEN /\ ~registered'[1].threw
            /\ listeners' = Append(listeners, [path |-> registered'[1].path,
                                               fn |-> registered'[1].fn])
       ELSE registered'[1].threw /\ listeners' = listeners

\* C31: in state$ every object reached along a path of length >= 0 carries
\* subscribe and primitive leaves do not, state$.<path>.subscribe(fn)
\* registers fn at exactly <path>, and reading through state$ leaves the
\* plain state as it was.
C31_SubscribeOnEveryContainer == [][ViewSubscribes(ViewPaths)]_vars

\* what the code does: the same below the root; the root carries no subscribe
C31_SubscribeBelowRoot ==
  [][/\ ViewSubscribes(ViewPaths \ {<<>>})
     /\ (Registers("state$") /\ registered'[1].path = <<>>) =>
          registered'[1].threw /\ listeners' = listeners]_vars

\* ------------------------------------------------------------------ C32
\* the sequence without its i-th element
RemoveAt(ls, i) == SubSeq(ls, 1, i - 1) \o SubSeq(ls, i + 1, Len(ls))

\* a handle's unsubscribe() removed records in this step
Unregisters == Len(listeners') < Len(listeners)

\* exactly one record is gone, all others are still registered in order
OneRecordRemoved == \E i \in 1..Len(listeners) : listeners' = RemoveAt(listeners, i)

\* C32: unsubscribing a handle removes exactly the one record its subscribe
\* call created; records with the same function at another path, or from a
\* second registration at the same path, stay registered.
C32_RemovesExactlyOneRecord == [][Unregisters => OneRecordRemoved]_vars

\* what the code does: every record holding the function is removed, which
\* is one record when no function is registered twice
C32_RemovesEveryRecordOfTheFunction ==
  [][Unregisters =>
       /\ \E fn \in Fns : listeners' = removeListener(listeners, fn)
       /\ (\A i, j \in 1..Len(listeners) : listeners[i].fn = listeners[j].fn => i = j)
            => OneRecordRemoved]_vars

\* ------------------------------------------------------------------ C33
\* a patch is emitted in this step: sent at once or put into the buffer
EmitsPatch == Len(EmittedPatches') = Len(EmittedPatches) + 1

\* the emitted patch is the patch of an assignment that changed the state
OfSucceededWrite ==
  /\ Len(writes') = Len(writes) + 1
  /\ Last(writes').path = Last(EmittedPatches').path
  /\ GetAt(serverState', Last(writes').path) = Last(writes').value

\* C33: a patch is emitted only for a write that succeeded on the underlying
\* object; an assignment the object rejects (a frozen target) emits no patch
\* and sends no message.
C33_PatchOnlyForSucceededWrite == [][EmitsPatch => OfSucceededWrite]_vars

\* what the code does: a patch is emitted for every assignment, and it is the
\* patch of a succeeded write when the target is not frozen
C33_PatchForEveryAssignment ==
  [][EmitsPatch =>
       \/ OfSucceededWrite
       \/ /\ Front(Last(EmittedPatches').path) \in frozen
          /\ serverState' = serverState /\ writes' = writes]_vars

\* ------------------------------------------------------------------ C34
\* the triggering path an invocation of listener i is to report for the last
\* message
TriggerPath(i) ==
  IF LastMsg.type = "complete" THEN <<>>
  ELSE IF LastMsg.type = "patch" THEN LastMsg.patches[1].path
  ELSE listeners[i].path

\* C34: every listener invocation receives the value at the listener's own
\* path in the state after the whole message has been applied, and as
\* triggering path the patch path for a patch, the listener's own path for a
\* patch-batch and the empty path for a complete.
C34_InvokedWithFinalValue ==
  handled # <<>> =>
    \A k \in 1..Len(calls) :
      /\ calls[k].l \in 1..Len(listeners)
      /\ calls[k].fn = listeners[calls[k].l].fn
      /\ calls[k].value = GetAt(clientState, listeners[calls[k].l].path)
      /\ calls[k].path = TriggerPath(calls[k].l)

\* a batch set the listener's path twice to different values and the
\* listener was invoked for it
C34_Witness ==
  /\ handled # <<>>
  /\ LastMsg.type = "patch-batch"
  /\ Len(LastMsg.patches) = 2
  /\ LastMsg.patches[1].path = <<"a">>
  /\ LastMsg.patches[2].path = <<"a">>
  /\ LastMsg.patches[1].value # LastMsg.patches[2].value
  /\ \E i \in 1..Len(listeners) : listeners[i].path = <<"a">> /\ Invoked(i)

\* ------------------------------------------------------------------ C35
\* the client's current transport is open
CurrentOpen == ws # 0 /\ sock[ws].state = "OPEN"

\* the current transport has not fired its close event
CurrentNotClosed == ws # 0 /\ sock[ws].state \in {"OPEN", "CLOSING"}

\* C35: in WebSocket mode isConnected is true exactly when the current
\* transport has opened and not yet closed: it is true while the current
\* socket is open, also after the close event of a socket that reconnect()
\* replaced, and it is true only while the current socket has not closed.
C35_ConnectedIffCurrentOpen ==
  ~externalTransport => (CurrentOpen => connected) /\ (connected => CurrentNotClosed)

\* what the code does: the two agree as long as no socket has been replaced
\* by a user call
C35_ConnectedIffOpenWithoutUserCalls ==
  (~externalTransport /\ ~useToken /\ userCalls = 0) =>
    (CurrentOpen => connected) /\ (connected => CurrentNotClosed)

\* ------------------------------------------------------------------ C36
\* no further connect attempt fits the bound on sockets
AttemptsUsedUp == Attempts >= MaxSockets

\* C36: in WebSocket mode, with timers and transport events scheduled
\* fairly, a client that is not connected and whose last user call was not
\* disconnect() is eventually connected again, whatever calls of
\* reconnect() and disconnect() came before.
C36_EventuallyReconnected ==
  (~externalTransport /\ ~connected /\ ~stopped) ~> (connected \/ stopped \/ AttemptsUsedUp)

\* what the code does: the client is connected again when no user call has
\* been made
C36_ReconnectedWithoutUserCalls ==
  (~externalTransport /\ ~connected /\ userCalls = 0)
    ~> (connected \/ userCalls > 0 \/ AttemptsUsedUp)

\* ------------------------------------------------------------------ C37
\* C37: with batchDelay > 0 and before close() is called, a batch timer is
\* pending if and only if the patch buffer is not empty.
C37_TimerIffBuffered ==
  (batchDelay > 0 /\ ~closed) => (timers # {} <=> patchBatch # <<>>)

\* after a first batch has been flushed, a later write is buffered and its
\* timer is pending
C37_Witness ==
  /\ batchDelay > 0
  /\ ~closed
  /\ \E i \in 1..Len(handed) : handed[i].msg.type = "patch-batch"
  /\ patchBatch # <<>>
  /\ timers # {}

\* ------------------------------------------------- values of a batch (C38)
\* the index in the write log of the first write the i-th hand-over carries
FirstBatched(i) == handed[i].nw - Len(handed[i].msg.patches) + 1

\* the state a client in step with the server held before the i-th hand-over
HeldBefore(i) ==
  JsonRoundTrip(Replay(InitialState, SubSeq(writes, 1, FirstBatched(i) - 1)))

\* the k-th patch of the i-th hand-over carries the value its write assigned
CarriesAssigned(i, k) ==
  handed[i].msg.patches[k].value
    = JsonRoundTrip(writes[FirstBatched(i) + k - 1].value)

BatchHandOvers == {i \in 1..Len(handed) : handed[i].msg.type = "patch-batch"}

\* C38: every patch of a patch-batch carries the value assigned at the time
\* of its write, whatever was written later in the same window below an
\* assigned object, and the patches of the batch apply in order to the state
\* the client held before the batch.
C38_BatchPatchKeepsAssignedValue ==
  \A i \in BatchHandOvers :
    /\ \A k \in 1..Len(handed[i].msg.patches) : CarriesAssigned(i, k)
    /\ ApplyPatches(HeldBefore(i), handed[i].msg.patches).ok

\* what the code does: a patch carries the assigned value when that value is
\* not an object, the patches keep the paths of the writes in order, and the
\* batch applies in order
C38_PrimitiveValuesKept ==
  \A i \in BatchHandOvers :
    /\ \A k \in 1..Len(handed[i].msg.patches) :
         /\ handed[i].msg.patches[k].path = writes[FirstBatched(i) + k - 1].path
         /\ ~IsObject(writes[FirstBatched(i) + k - 1].value) => CarriesAssigned(i, k)
    /\ ApplyPatches(HeldBefore(i), handed[i].msg.patches).ok

\* a batch was handed over whose first patch is an object written below later
C38_Witness ==
  \E i \in BatchHandOvers :
    /\ Len(handed[i].msg.patches) = 2
    /\ IsObject(writes[FirstBatched(i)].value)
    /\ IsPrefix(writes[FirstBatched(i)].path, writes[FirstBatched(i) + 1].path)
    /\ writes[FirstBatched(i)].path # writes[FirstBatched(i) + 1].path

\* ------------------------------------------- unsubscribe() re-entered (C39)
\* unsubscribe() call by call: a teardown may be () => A.unsubscribe() or the
\* wrapper add() pushes for a handle, so unsubscribe() can be entered while
\* a call of it is in progress.  MaxDepth stands for the depth at which the
\* engine raises RangeError: Maximum call stack size exceeded.
HandleA == "A"
Handles == {HandleA, HandleB}

\* this._unsubFunctions and this.closed of a handle
FunctionsOf(h) == IF h = HandleA THEN unsubFunctions ELSE bFunctions
ClosedOf(h) == IF h = HandleA THEN subClosed ELSE bClosed

\* a call of h.unsubscribe() that passed `if (this.closed) return`, at the
\* first teardown of its loop
Frame(h) == [h |-> h, i |-> 1]

\* the user calls h.unsubscribe()
unsubscribeEnters(h) ==
  /\ stack = <<>>
  /\ unsubCalls' = (IF h = HandleA THEN unsubCalls + 1 ELSE unsubCalls)
  /\ bCalls' = (IF h = HandleB THEN bCalls + 1 ELSE bCalls)
  /\ stack' = (IF ClosedOf(h) THEN <<>> ELSE <<Frame(h)>>)
  /\ UNCHANGED <<serverVars, netVars, histVars, clientState, listeners, pos, handled, calls,
                 threw, registered, connVars, unsubFunctions, subClosed, ran, lateRun,
                 lateThrow, bFunctions, bClosed, bRan, attachedOpen, overflow>>

\* unsub() in the loop of the innermost call: a plain function runs and the
\* loop goes on; one that throws ends every call in progress; one that calls
\* unsubscribe() of a handle returns at once when that handle is closed and
\* enters its loop otherwise, unless the call stack is exhausted
teardownRuns ==
  /\ stack # <<>>
  /\ Last(stack).i <= Len(FunctionsOf(Last(stack).h))
  /\ LET top == Last(stack)
         fn == FunctionsOf(top.h)[top.i]
         rest == [stack EXCEPT ![Len(stack)].i = @ + 1]
     IN /\ ran' = (IF top.h = HandleA THEN [ran EXCEPT ![top.i] = @ + 1] ELSE ran)
        /\ bRan' = (IF top.h = HandleB THEN [bRan EXCEPT ![top.i] = @ + 1] ELSE bRan)
        /\ IF fn \in ThrowingTeardowns
           THEN stack' = <<>> /\ UNCHANGED overflow
           ELSE IF fn \notin Handles \/ ClosedOf(fn)
           THEN stack' = rest /\ UNCHANGED overflow
           ELSE IF Len(stack) >= MaxDepth
           THEN stack' = <<>> /\ overflow' = TRUE
           ELSE stack' = Append(rest, Frame(fn)) /\ UNCHANGED overflow
  /\ UNCHANGED <<serverVars, netVars, histVars, clientState, listeners, pos, handled, calls,
                 threw, registered, connVars, unsubFunctions, subClosed, unsubCalls, lateRun,
                 lateThrow, bFunctions, bClosed, bCalls, attachedOpen>>

\* this.closed = true after the loop of the innermost call, which returns
loopEnds ==
  /\ stack # <<>>
  /\ Last(stack).i > Len(FunctionsOf(Last(stack).h))
  /\ subClosed' = (subClosed \/ Last(stack).h = HandleA)
  /\ bClosed' = (bClosed \/ Last(stack).h = HandleB)
  /\ stack' = Front(stack)
  /\ UNCHANGED <<serverVars, netVars, histVars, clientState, listeners, pos, handled, calls,
                 threw, registered, connVars, unsubFunctions, ran, unsubCalls, lateRun,
                 lateThrow, bFunctions, bRan, bCalls, attachedOpen, overflow>>

\* Two handles whose teardowns do not throw: plain functions, teardowns that
\* call A.unsubscribe(), A.add(B) and B.add(A).
ReentrantTeardowns == {"t", HandleA}

NextReentry ==
  \/ stack = <<>> /\ Len(unsubFunctions) < MaxTeardowns - 1
       /\ \E t \in ReentrantTeardowns : add(t)
  \/ stack = <<>> /\ Len(unsubFunctions) < MaxTeardowns - 1 /\ addHandle
  \/ stack = <<>> /\ Len(bFunctions) < MaxTeardowns - 1
       /\ \E t \in ReentrantTeardowns : addB(t)
  \/ \E h \in Handles :
       /\ (IF h = HandleA THEN unsubCalls ELSE bCalls) < MaxUnsubCalls - 1
       /\ unsubscribeEnters(h)
  \/ teardownRuns
  \/ loopEnds

InitReentry ==
  /\ InitServer({NotConfigured}, {TRUE})
  /\ clientState = InitialState
  /\ listeners = <<>>
  /\ pos = 0
  /\ handled = <<>>
  /\ calls = <<>>
  /\ threw = FALSE
  /\ registered = <<>>
  /\ InitTransport({FALSE})
  /\ InitHandles({"t"}, {"t"})

SpecReentry == InitReentry /\ [][NextReentry]_vars

\* a handle has a teardown that leads back to its own unsubscribe()
SelfCalling ==
  \/ \E i \in 1..Len(unsubFunctions) : unsubFunctions[i] = HandleA
  \/ /\ \E i \in 1..Len(unsubFunctions) : unsubFunctions[i] = HandleB
     /\ \E i \in 1..Len(bFunctions) : bFunctions[i] = HandleA

EachRanAtMostOnce ==
  /\ \A i \in 1..Len(ran) : ran[i] <= 1
  /\ \A i \in 1..Len(bRan) : bRan[i] <= 1

\* C39: unsubscribe() runs each teardown at most once and never exhausts the
\* call stack, also when a teardown calls unsubscribe() on the same handle
\* or two handles are added to each other.
C39_ReentryRunsOnce == ~overflow /\ EachRanAtMostOnce

\* what the code does: each teardown runs at most once and the stack is not
\* exhausted as long as no teardown leads back to its own handle
C39_OnceWithoutReentry == ~SelfCalling => (~overflow /\ EachRanAtMostOnce)

\* a call of unsubscribe() was entered while one on the same handle was in
\* progress
C39_Witness ==
  \E i, j \in 1..Len(stack) : i < j /\ stack[i].h = stack[j].h

=============================================================================
